---- MODULE Spec2Model ----
(***************************************************************************)
(* Session / token lifecycle core of OCISessionManager:                    *)
(*   - OCISessionManager (token manager and renewal scheduler),            *)
(*   - SSHConnection / OCIBastionSessions (tunnel supervisor),             *)
(*   - the callback lists of both (event hub).                             *)
(* Texts (tokens, payloads) are sequences of ASCII codes.                  *)
(***************************************************************************)
EXTENDS Integers, Sequences, FiniteSets, TLC

VARIABLES
    tk_token,     \* token text handed to _get_token_expiration_delay
    tk_now,       \* datetime.now(timezone.utc) at the call, in seconds
    tk_class,     \* how the input token was built (see TokenCases)
    tk_exp,       \* the exp claim written into the payload (0 when none)
    tk_out,       \* [done |-> FALSE], or the outcome of the call
    tk_expired,   \* [done |-> FALSE], or what the property `expired` gave
    \* ---- OCISessionManager (token manager and renewal scheduler)
    m_auto_renew, \* self._auto_renew
    m_token,      \* self._security_token
    m_timer,      \* self._timer: 0 (None) or the index of a timer in m_timers
    m_timers,     \* every threading.Timer created so far, with its thread
    m_callbacks,  \* self._callbacks
    m_pc,         \* where the calling thread is in start() / stop()
    m_success,    \* the local `success` of start()
    clock,        \* wall clock, seconds
    m_op,         \* history: what the current / last start() or stop() did
    m_hist,       \* history: counters over the whole run
    m_load,             \* history: how the constructor found the profile
    \* ---- SSHConnection (tunnel supervisor)
    s_connected,        \* self._connected
    s_callbacks,        \* self._callbacks
    s_process,          \* self._process: 0 (None) or an index into s_procs
    s_procs,            \* every ssh subprocess launched so far
    s_retry_count,      \* self._retry_count
    s_max_retries,      \* self._max_retries
    s_should_reconnect, \* self._should_reconnect
    s_workers,          \* the run_ssh threads started so far
    s_cpc,              \* where the calling thread is
    s_set,              \* per thread: its running call of the connected setter
    s_notes,            \* history: per subscriber, what it was called with
    s_hist,             \* history: counters and the last delivery
    \* ---- OCIBastionSessions (session provisioner)
    b_auto_renew,       \* self._auto_renew
    b_session,          \* self._session
    b_callbacks,        \* self._callbacks
    b_timers,           \* every Timer created by _schedule_session_renewal
    b_pc,               \* where the thread in the provisioner is
    b_call,             \* history: the current / last call of the provisioner
    b_hist,             \* history: counters, and the last publication
    b_connected,        \* OCIBastionSessions._connected
    b_ttl,              \* self._session_ttl_in_seconds
    \* ---- OCISessionManager.config (the dicts the manager and its caller hold)
    c_heap,             \* the dict objects: self._config, the overrides, results
    c_ret,              \* the object the last read of `config` returned
    c_orig,             \* history: the two dicts of the manager at construction
    \* ---- modules/config.py (the debounced save of the configuration)
    g_save_timer,       \* _save_timer: 0 for None, or the Timer it refers to
    g_timers,           \* every Timer created by _debounce_save_config
    g_pc,               \* where the thread that changes the configuration is
    g_config,           \* the configuration in memory: its number of changes
    g_file,             \* the configuration in the file
    g_hist              \* history: counters

tokVars == <<tk_token, tk_now, tk_class, tk_exp, tk_out, tk_expired>>
mgrVars == <<m_auto_renew, m_token, m_timer, m_timers, m_callbacks, m_pc,
             m_success, clock, m_op, m_hist, m_load>>

sshVars == <<s_connected, s_callbacks, s_process, s_procs, s_retry_count,
             s_max_retries, s_should_reconnect, s_workers, s_cpc, s_set,
             s_notes, s_hist>>

basVars == <<b_auto_renew, b_session, b_callbacks, b_timers, b_pc, b_call,
             b_hist, b_connected, b_ttl>>

cfgVars == <<c_heap, c_ret, c_orig>>

savVars == <<g_save_timer, g_timers, g_pc, g_config, g_file, g_hist>>

vars == <<tokVars, mgrVars, sshVars, basVars, cfgVars, savVars>>

\* what the actions of one component leave alone
outsideMgr == <<tokVars, sshVars, basVars, cfgVars, savVars>>
outsideTok == <<mgrVars, sshVars, basVars, cfgVars, savVars>>
outsideSSH == <<tokVars, mgrVars, basVars, cfgVars, savVars>>
outsideBastion == <<tokVars, mgrVars, sshVars, cfgVars, savVars>>
outsideCfg == <<tokVars, mgrVars, sshVars, basVars, savVars>>
outsideSave == <<tokVars, mgrVars, sshVars, basVars, cfgVars>>

Max(a, b) == IF a >= b THEN a ELSE b

(***************************************************************************)
(* Token decoding: OCISessionManager._get_token_expiration_delay           *)
(***************************************************************************)

NoToken == [some |-> FALSE]
SomeToken(text) == [some |-> TRUE, text |-> text]

\* str.split("."): the segments of s between the dots (46 = ".")
RECURSIVE SplitFrom(_, _, _, _)
SplitFrom(s, i, cur, acc) ==
    IF i > Len(s) THEN Append(acc, cur)
    ELSE IF s[i] = 46 THEN SplitFrom(s, i + 1, <<>>, Append(acc, cur))
    ELSE SplitFrom(s, i + 1, Append(cur, s[i]), acc)

SplitDot(s) == SplitFrom(s, 1, <<>>, <<>>)

\* The 6-bit value of a character for base64.urlsafe_b64decode: "-" and "_"
\* are translated to "+" and "/" first, and the standard alphabet is then
\* accepted, so "+" and "/" decode too. 64 = not in the alphabet.
Sextet(c) ==
    IF c >= 65 /\ c <= 90 THEN c - 65
    ELSE IF c >= 97 /\ c <= 122 THEN c - 71
    ELSE IF c >= 48 /\ c <= 57 THEN c + 4
    ELSE IF c = 45 \/ c = 43 THEN 62
    ELSE IF c = 95 \/ c = 47 THEN 63
    ELSE 64

\* binascii.a2b_base64 in its default (non-strict) mode: characters outside
\* the alphabet are skipped, a completed pad sequence ends the parse, and a
\* dangling quad is an error. (61 = "=")
RECURSIVE A2bBase64(_, _, _, _, _, _)
A2bBase64(s, i, quad, left, pads, out) ==
    IF i > Len(s) THEN [ok |-> quad = 0, bytes |-> out]
    ELSE IF s[i] = 61 THEN
        IF quad >= 2 /\ quad + pads + 1 >= 4
        THEN [ok |-> TRUE, bytes |-> out]
        ELSE A2bBase64(s, i + 1, quad, left,
                       IF quad >= 2 THEN pads + 1 ELSE pads, out)
    ELSE LET v == Sextet(s[i]) IN
        IF v >= 64 THEN A2bBase64(s, i + 1, quad, left, pads, out)
        ELSE IF quad = 0 THEN A2bBase64(s, i + 1, 1, v, 0, out)
        ELSE IF quad = 1
            THEN A2bBase64(s, i + 1, 2, v % 16, 0,
                           Append(out, left * 4 + (v \div 16)))
        ELSE IF quad = 2
            THEN A2bBase64(s, i + 1, 3, v % 4, 0,
                           Append(out, left * 16 + (v \div 4)))
        ELSE A2bBase64(s, i + 1, 0, 0, 0, Append(out, left * 64 + v))

UrlsafeB64Decode(s) == A2bBase64(s, 1, 0, 0, 0, <<>>)

\* bytes.decode(): the inputs are ASCII; a byte above 127 outside a valid
\* multi-byte sequence raises UnicodeDecodeError (multi-byte sequences are
\* not among the inputs).
Utf8Ok(b) == \A i \in 1..Len(b) : b[i] < 128

(***************************************************************************)
(* json.loads on the subset of JSON the inputs use: one flat object or one *)
(* scalar; integers, strings without escapes, true, false, null.           *)
(***************************************************************************)
IsWs(c) == c \in {32, 9, 10, 13}
IsDigit(c) == c >= 48 /\ c <= 57

RECURSIVE SkipWs(_, _)
SkipWs(s, i) == IF i <= Len(s) /\ IsWs(s[i]) THEN SkipWs(s, i + 1) ELSE i

RECURSIVE ScanDigits(_, _)
ScanDigits(s, i) ==
    IF i <= Len(s) /\ IsDigit(s[i]) THEN ScanDigits(s, i + 1) ELSE i

\* From the character after an opening quote: the index of the closing
\* quote, 0 when the string is unterminated (34 = quote, 92 = backslash).
RECURSIVE ScanString(_, _)
ScanString(s, i) ==
    IF i > Len(s) THEN 0
    ELSE IF s[i] = 34 THEN i
    ELSE IF s[i] = 92 \/ s[i] < 32 THEN 0
    ELSE ScanString(s, i + 1)

HasAt(s, i, w) == i + Len(w) - 1 <= Len(s) /\ SubSeq(s, i, i + Len(w) - 1) = w

JsonFail == [ok |-> FALSE]

\* a string whose opening quote is at i and closing quote at j (0 = none)
JsonString(s, i, j) ==
    IF j = 0 THEN JsonFail
    ELSE [ok |-> TRUE, pos |-> j + 1,
          val |-> [k |-> "str", s |-> SubSeq(s, i + 1, j - 1)]]

\* NUMBER_RE, -?(0|[1-9][0-9]*): the digits are s[d0 .. d1-1]
JsonNumber(s, neg, d0, d1) ==
    IF d1 = d0 THEN JsonFail
    ELSE [ok |-> TRUE, pos |-> d1,
          val |-> [k |-> "num", neg |-> neg,
                   digits |-> [n \in 1..(d1 - d0) |-> s[d0 + n - 1] - 48]]]

JsonDigitsFrom(s, neg, d0) ==
    JsonNumber(s, neg, d0,
               IF d0 <= Len(s) /\ s[d0] = 48 THEN d0 + 1 ELSE ScanDigits(s, d0))

\* A scalar at position i: [ok, pos (after it), val].
JsonScalar(s, i) ==
    IF i > Len(s) THEN JsonFail
    ELSE IF s[i] = 34 THEN JsonString(s, i, ScanString(s, i + 1))
    ELSE IF s[i] = 45 THEN JsonDigitsFrom(s, TRUE, i + 1)
    ELSE IF IsDigit(s[i]) THEN JsonDigitsFrom(s, FALSE, i)
    ELSE IF HasAt(s, i, <<116, 114, 117, 101>>)
        THEN [ok |-> TRUE, pos |-> i + 4, val |-> [k |-> "bool", b |-> TRUE]]
    ELSE IF HasAt(s, i, <<102, 97, 108, 115, 101>>)
        THEN [ok |-> TRUE, pos |-> i + 5, val |-> [k |-> "bool", b |-> FALSE]]
    ELSE IF HasAt(s, i, <<110, 117, 108, 108>>)
        THEN [ok |-> TRUE, pos |-> i + 4, val |-> [k |-> "null"]]
    ELSE JsonFail

\* The members of an object, i at the opening quote of a key: [ok, pos
\* (after the closing brace), members (a sequence of <<key, value>>)].
\* JsonMembers reads the key, JsonColon the colon, JsonValue the value,
\* JsonNext the comma or the closing brace (44 = ",", 58 = ":", 125 = "}").
RECURSIVE JsonMembers(_, _, _)
RECURSIVE JsonColon(_, _, _, _)
RECURSIVE JsonValue(_, _, _, _)
RECURSIVE JsonNext(_, _, _)

JsonNext(s, e, acc) ==
    IF e > Len(s) THEN JsonFail
    ELSE IF s[e] = 125 THEN [ok |-> TRUE, pos |-> e + 1, members |-> acc]
    ELSE IF s[e] = 44 THEN JsonMembers(s, SkipWs(s, e + 1), acc)
    ELSE JsonFail

JsonValue(s, key, v, acc) ==
    IF ~v.ok THEN JsonFail
    ELSE JsonNext(s, SkipWs(s, v.pos), Append(acc, <<key, v.val>>))

JsonColon(s, key, c, acc) ==
    IF c > Len(s) \/ s[c] # 58 THEN JsonFail
    ELSE JsonValue(s, key, JsonScalar(s, SkipWs(s, c + 1)), acc)

JsonKey(s, i, j, acc) ==
    IF j = 0 THEN JsonFail
    ELSE JsonColon(s, SubSeq(s, i + 1, j - 1), SkipWs(s, j + 1), acc)

JsonMembers(s, i, acc) ==
    IF i > Len(s) \/ s[i] # 34 THEN JsonFail
    ELSE JsonKey(s, i, ScanString(s, i + 1), acc)

\* the value parsed must be followed by nothing but whitespace
JsonWhole(s, r, val) ==
    IF r.ok /\ SkipWs(s, r.pos) > Len(s) THEN [ok |-> TRUE, val |-> val]
    ELSE JsonFail

JsonObjectMembers(s, r) ==
    IF r.ok /\ SkipWs(s, r.pos) > Len(s)
    THEN [ok |-> TRUE, val |-> [k |-> "obj", members |-> r.members]]
    ELSE JsonFail

\* an object whose first token after the brace is at m
JsonObject(s, m) ==
    JsonObjectMembers(s, IF m <= Len(s) /\ s[m] = 125
                         THEN [ok |-> TRUE, pos |-> m + 1, members |-> <<>>]
                         ELSE JsonMembers(s, m, <<>>))

JsonTop(s, r) ==
    IF r.ok /\ SkipWs(s, r.pos) > Len(s) THEN [ok |-> TRUE, val |-> r.val]
    ELSE JsonFail

JsonAt(s, i) ==
    IF i > Len(s) THEN JsonFail
    ELSE IF s[i] = 123 THEN JsonObject(s, SkipWs(s, i + 1))
    ELSE JsonTop(s, JsonScalar(s, i))

\* json.loads(text): [ok, val]; an object is [k |-> "obj", members].
JsonLoads(s) == JsonAt(s, SkipWs(s, 1))

\* dict.get(key): the value of the last member with that key, else None.
RECURSIVE DictGet(_, _, _)
DictGet(members, key, n) ==
    IF n = 0 THEN [k |-> "null"]
    ELSE IF members[n][1] = key THEN members[n][2]
    ELSE DictGet(members, key, n - 1)

ExpKey == <<101, 120, 112>>

RECURSIVE DigitsVal(_, _)
DigitsVal(d, n) == IF n = 0 THEN 0 ELSE DigitsVal(d, n - 1) * 10 + d[n]

\* d <= lim for two digit sequences of the same length
RECURSIVE DigitsLeq(_, _, _)
DigitsLeq(d, lim, i) ==
    IF i > Len(d) THEN TRUE
    ELSE IF d[i] < lim[i] THEN TRUE
    ELSE IF d[i] > lim[i] THEN FALSE
    ELSE DigitsLeq(d, lim, i + 1)

\* datetime.fromtimestamp(x, timezone.utc) accepts the timestamps of the
\* years 1..9999: -62135596800 .. 253402300799.
MaxTimestampDigits == <<2, 5, 3, 4, 0, 2, 3, 0, 0, 7, 9, 9>>
MinTimestampDigits == <<6, 2, 1, 3, 5, 5, 9, 6, 8, 0, 0>>

InDatetimeRange(v) ==
    \/ Len(v.digits) < Len(IF v.neg THEN MinTimestampDigits ELSE MaxTimestampDigits)
    \/ /\ Len(v.digits) = Len(IF v.neg THEN MinTimestampDigits ELSE MaxTimestampDigits)
       /\ DigitsLeq(v.digits,
                    IF v.neg THEN MinTimestampDigits ELSE MaxTimestampDigits, 1)

\* datetime.fromtimestamp(exp_time, timezone.utc): [ok, ts]. An int in range
\* (a bool is an int) is accepted; None, a string and an out-of-range value
\* raise TypeError, ValueError, OverflowError or OSError.
FromTimestamp(v) ==
    IF v.k = "bool" THEN [ok |-> TRUE, ts |-> IF v.b THEN 1 ELSE 0]
    ELSE IF v.k = "num" /\ InDatetimeRange(v)
        THEN [ok |-> TRUE,
              ts |-> (IF v.neg THEN -1 ELSE 1) * DigitsVal(v.digits, Len(v.digits))]
    ELSE [ok |-> FALSE]

\* The try block, lines 206-214, statement by statement; [exc |-> TRUE] when
\* a statement raises, else the value returned.
Raised == [exc |-> TRUE]

\* lines 210-214: the delay from the timestamp; max(expiration_delay, 0)
DelayFromTimestamp(t, now) ==
    IF ~t.ok THEN Raised                    \* TypeError, ValueError, ...
    ELSE [exc |-> FALSE, val |-> Max(t.ts - now, 0)]

\* line 209: json.loads(payload).get("exp")
DelayFromJson(j, now) ==
    IF ~j.ok THEN Raised                    \* JSONDecodeError
    ELSE IF j.val.k # "obj" THEN Raised     \* AttributeError: no .get
    ELSE DelayFromTimestamp(
             FromTimestamp(DictGet(j.val.members, ExpKey, Len(j.val.members))),
             now)

\* line 208: .decode()
DelayFromBytes(dec, now) ==
    IF ~dec.ok THEN Raised                  \* binascii.Error
    ELSE IF ~Utf8Ok(dec.bytes) THEN Raised  \* UnicodeDecodeError
    ELSE DelayFromJson(JsonLoads(dec.bytes), now)

\* lines 206-207: urlsafe_b64decode(token.split(".")[1] + "==")
DelayFromSegments(segs, now) ==
    IF Len(segs) < 2 THEN Raised            \* IndexError
    ELSE DelayFromBytes(UrlsafeB64Decode(segs[2] \o <<61, 61>>), now)

DecodeExpirationDelay(text, now) == DelayFromSegments(SplitDot(text), now)

\* lines 215-217: except Exception: return 0
CatchAll(r) ==
    IF r.exc THEN [raised |-> FALSE, val |-> 0]
    ELSE [raised |-> FALSE, val |-> r.val]

\* _get_token_expiration_delay: [raised, val]
GetTokenExpirationDelay(token, now) ==
    IF ~token.some \/ token.text = <<>> THEN [raised |-> FALSE, val |-> 0]
    ELSE CatchAll(DecodeExpirationDelay(token.text, now))

(***************************************************************************)
(* Input tokens for the decoding check. A token file is written by the     *)
(* OCI CLI: header.payload.signature, the payload base64url without pads.  *)
(***************************************************************************)
B64Char(v) ==
    IF v < 26 THEN v + 65
    ELSE IF v < 52 THEN v + 71
    ELSE IF v < 62 THEN v - 4
    ELSE IF v = 62 THEN 45 ELSE 95

RECURSIVE B64Encode(_)
B64Encode(b) ==
    IF Len(b) = 0 THEN <<>>
    ELSE IF Len(b) = 1
        THEN <<B64Char(b[1] \div 4), B64Char((b[1] % 4) * 16)>>
    ELSE IF Len(b) = 2
        THEN <<B64Char(b[1] \div 4),
               B64Char((b[1] % 4) * 16 + (b[2] \div 16)),
               B64Char((b[2] % 16) * 4)>>
    ELSE <<B64Char(b[1] \div 4),
           B64Char((b[1] % 4) * 16 + (b[2] \div 16)),
           B64Char((b[2] % 16) * 4 + (b[3] \div 64)),
           B64Char(b[3] % 64)>> \o B64Encode(SubSeq(b, 4, Len(b)))

RECURSIVE NatText(_)
NatText(n) ==
    IF n < 10 THEN <<n + 48>> ELSE Append(NatText(n \div 10), (n % 10) + 48)

IntText(n) == IF n < 0 THEN <<45>> \o NatText(-n) ELSE NatText(n)

Header == <<104, 100, 114>>
Signature == <<115, 105, 103>>

\* header.payload.signature for a payload text
Jwt(payload) == Header \o <<46>> \o B64Encode(payload) \o <<46>> \o Signature

\* {"exp":N}
ExpPayload(n) == <<123, 34, 101, 120, 112, 34, 58>> \o IntText(n) \o <<125>>
\* {"exp": N } (insignificant whitespace)
ExpPayloadWs(n) ==
    <<123, 34, 101, 120, 112, 34, 58, 32>> \o IntText(n) \o <<32, 125>>
\* {"sub":"u","exp":N}
ExpPayloadSub(n) ==
    <<123, 34, 115, 117, 98, 34, 58, 34, 117, 34, 44, 34, 101, 120, 112, 34, 58>>
        \o IntText(n) \o <<125>>
\* {"exp":253402300800}: the first second of the year 10000
ExpPayloadYear10000 ==
    <<123, 34, 101, 120, 112, 34, 58>>
        \o <<50, 53, 51, 52, 48, 50, 51, 48, 48, 56, 48, 48>> \o <<125>>
\* {"exp":"N"}
StrExpPayload(n) ==
    <<123, 34, 101, 120, 112, 34, 58, 34>> \o IntText(n) \o <<34, 125>>
\* {"exp":null}
NullExpPayload == <<123, 34, 101, 120, 112, 34, 58, 110, 117, 108, 108, 125>>
\* {"sub":"u"}
NoExpPayload == <<123, 34, 115, 117, 98, 34, 58, 34, 117, 34, 125>>
\* {"exp":N   (the closing brace is missing)
CutPayload(n) == <<123, 34, 101, 120, 112, 34, 58>> \o IntText(n)

NowInputs == {1000, 1060}
ExpInputs == {-5, 0, 1000, 1061, 1120, 4600}

\* Payloads with what the claim calls them: "numeric" (a JSON object with a
\* numeric exp), or "malformed".
PayloadCases ==
    {[payload |-> ExpPayload(n), class |-> "numeric", exp |-> n] : n \in ExpInputs}
    \cup {[payload |-> ExpPayloadWs(n), class |-> "numeric", exp |-> n] : n \in ExpInputs}
    \cup {[payload |-> ExpPayloadSub(n), class |-> "numeric", exp |-> n] : n \in ExpInputs}
    \cup {[payload |-> ExpPayloadYear10000, class |-> "numeric_big", exp |-> 0]}
    \cup {[payload |-> StrExpPayload(n), class |-> "malformed", exp |-> 0] : n \in ExpInputs}
    \cup {[payload |-> CutPayload(n), class |-> "malformed", exp |-> 0] : n \in ExpInputs}
    \cup {[payload |-> IntText(n), class |-> "malformed", exp |-> 0] : n \in ExpInputs}
    \cup {[payload |-> p, class |-> "malformed", exp |-> 0] :
            p \in {NullExpPayload, NoExpPayload, <<123, 125>>, <<>>}}

DropLast(s) == SubSeq(s, 1, Len(s) - 1)
InsertAt(s, i, c) == SubSeq(s, 1, i) \o <<c>> \o SubSeq(s, i + 1, Len(s))

\* The tokens built from a payload case: well-formed ones keep the class of
\* the payload; the damaged ones are malformed tokens.
TokenCases ==
    {[token |-> SomeToken(Jwt(c.payload)), class |-> c.class, exp |-> c.exp] :
        c \in PayloadCases}
    \cup {[token |-> SomeToken(Header \o <<46>> \o B64Encode(c.payload)),
           class |-> c.class, exp |-> c.exp] : c \in PayloadCases}
    \* a single segment: no "."
    \cup {[token |-> SomeToken(B64Encode(c.payload)),
           class |-> "malformed", exp |-> 0] : c \in PayloadCases}
    \* the last character of the payload segment is lost
    \cup {[token |-> SomeToken(Header \o <<46>> \o DropLast(B64Encode(c.payload))
                               \o <<46>> \o Signature),
           class |-> "malformed", exp |-> 0] :
            c \in {d \in PayloadCases : d.payload # <<>>}}
    \* a character outside the base64url alphabet ("!") in the payload segment
    \cup {[token |-> SomeToken(Header \o <<46>>
                               \o InsertAt(B64Encode(c.payload), Len(B64Encode(c.payload)) \div 2, 33)
                               \o <<46>> \o Signature),
           class |-> "malformed", exp |-> 0] : c \in PayloadCases}
    \cup {[token |-> NoToken, class |-> "none", exp |-> 0],
          [token |-> SomeToken(<<>>), class |-> "none", exp |-> 0]}

InitTok ==
    /\ \E c \in TokenCases :
        /\ tk_token = c.token
        /\ tk_class = c.class
        /\ tk_exp = c.exp
    /\ tk_now \in NowInputs
    /\ tk_out = [done |-> FALSE]
    /\ tk_expired = [done |-> FALSE]

\* one call of _get_token_expiration_delay()
TokCall ==
    /\ ~tk_out.done
    /\ LET r == GetTokenExpirationDelay(tk_token, tk_now) IN
        tk_out' = [done |-> TRUE, raised |-> r.raised, val |-> r.val]
    /\ UNCHANGED <<tk_token, tk_now, tk_class, tk_exp, tk_expired>>
    /\ UNCHANGED outsideTok

\* the token check at rest (the other components' specifications)
IdleTok ==
    /\ tk_token = NoToken
    /\ tk_class = "none"
    /\ tk_exp = 0
    /\ tk_now = 0
    /\ tk_out = [done |-> FALSE]
    /\ tk_expired = [done |-> FALSE]

(***************************************************************************)
(* OCISessionManager: start(), stop(), the renewal timer and its thread    *)
(***************************************************************************)
MaxStarts == 2        \* start() calls in a run
MaxStops == 2         \* stop() calls in a run
MaxTimers == 2        \* timers created in a run
MaxCallbacks == 2     \* add_callback() calls in a run, each by a new subscriber
Clock0 == 1000        \* the clock at construction
TokenLifetime == 3600 \* validity of a token the OCI CLI issues
RenewMargin == 120    \* seconds before expiry at which renewal is due

Subscribers == 1..MaxCallbacks

\* A token with the payload {"exp":e}; `good` and `gexp` are history fields
\* saying what was written into it.
GoodToken(e) ==
    [some |-> TRUE, text |-> Jwt(ExpPayload(e)), good |-> TRUE, gexp |-> e]
\* A token whose payload is not JSON
BadToken ==
    [some |-> TRUE, text |-> Jwt(<<110, 111>>), good |-> FALSE, gexp |-> 0]
\* self._security_token = None
NoneToken == [some |-> FALSE, text |-> <<>>, good |-> FALSE, gexp |-> 0]

\* What the token file may hold when the manager is constructed
InitialTokens ==
    {GoodToken(Clock0 + TokenLifetime), GoodToken(Clock0 + 60),
     GoodToken(Clock0 - 10), BadToken, NoneToken}

\* The time to expiry the token was issued with (history; not what the code
\* computes): exp - now when that is positive, else 0.
IssuedTimeToExpiry(token, now) ==
    IF token.good THEN Max(token.gexp - now, 0) ELSE 0

\* a token counted as expired once the renewal margin is reached
ExpiredWithinMargin(r) == r.val <= 120

\* The property `expired`: the except branch cannot be taken, since
\* _get_token_expiration_delay raises nothing.
ExpiredFrom(r) == IF r.raised THEN TRUE ELSE r.val = 0

Expired(token, now) == ExpiredFrom(GetTokenExpirationDelay(token, now))

\* one read of the property `expired`, at the same instant as the call
ExpiredCall ==
    /\ ~tk_expired.done
    /\ tk_expired' = [done |-> TRUE, val |-> Expired(tk_token, tk_now)]
    /\ UNCHANGED <<tk_token, tk_now, tk_class, tk_exp, tk_out>>
    /\ UNCHANGED outsideTok

\* a scheduler that arms the timer for the expiry itself, with no margin
DelayWithoutMargin(token, now) == GetTokenExpirationDelay(token, now).val

\* _schedule_token_renewal, line 223
ScheduleDelay(token, now) ==
    Max(GetTokenExpirationDelay(token, now).val - RenewMargin, 0)

\* threading.Timer(delay, self._renew_token) after .start(): the timer's
\* thread waits for `delay`. st is the position of that thread:
\* pending -> renew -> finish -> done, or cancelled.
NewTimer(delay, token, now) ==
    [st |-> "pending", delay |-> delay, fireAt |-> now + delay,
     ttl |-> IssuedTimeToExpiry(token, now),
     succ |-> FALSE, chk |-> "none", renews |-> <<>>, armed |-> <<>>,
     notes |-> <<>>, cbs |-> <<>>, want |-> 0]

\* _schedule_token_renewal on the timer list: the new timer is appended
\* (nothing is cancelled), and self._timer refers to it.
ScheduleTokenRenewal(timers, token, now) ==
    Append(timers, NewTimer(ScheduleDelay(token, now), token, now))

\* threading.Timer.cancel(): stops the timer if it is still waiting
CancelTimer(timers, t) ==
    IF timers[t].st = "pending"
    THEN [timers EXCEPT ![t].st = "cancelled"]
    ELSE timers

\* The outcomes of `oci session authenticate|refresh` followed by
\* _load_security_token(): exit code 0 and the token file read, exit code 0
\* and the read failing (the token becomes None), or a non-zero exit code.
RenewOutcomes == {"ok", "ok_unread", "fail"}

\* result.returncode of subprocess.run(cmd, ...)
ReturnCode(outcome) == IF outcome = "fail" THEN 1 ELSE 0

\* the command line _renew_security_token builds, lines 173-181
RenewCommand(force_new) ==
    <<"oci", "session",
      IF force_new THEN "authenticate" ELSE "refresh",
      IF force_new THEN "--profile-name" ELSE "--profile",
      "profile_name">>
    \o (IF force_new
        THEN <<"--auth", "security_token", "--region", "region">>
        ELSE <<>>)

\* the exit code is not looked at
ReturnsAlways(outcome) == TRUE

\* _renew_security_token's return value, lines 186-192
RenewReturns(outcome) == ReturnCode(outcome) = 0

\* the in-memory token after _renew_security_token
TokenAfterRenew(outcome, token, now) ==
    IF outcome = "ok" THEN GoodToken(now + TokenLifetime)
    ELSE IF outcome = "ok_unread" THEN NoneToken
    ELSE token

\* history record of one call of _renew_security_token(force_new)
RenewRecord(force_new, outcome, token, now) ==
    [force |-> force_new, ok |-> RenewReturns(outcome),
     cmd |-> RenewCommand(force_new), code |-> ReturnCode(outcome),
     before |-> token, after |-> TokenAfterRenew(outcome, token, now),
     file |-> IF outcome = "ok" THEN GoodToken(now + TokenLifetime)
              ELSE NoneToken]

\* a publish that stops after the first callback
NotifyFirstOnly(callbacks, success, token, now) ==
    [i \in 1..(IF callbacks = <<>> THEN 0 ELSE 1) |->
        [cb |-> callbacks[i], success |-> success,
         expiration |-> now + GetTokenExpirationDelay(token, now).val]]

\* _notify_callbacks(success, expiration_time): one call per registered
\* callback, in list order; expiration_time = now + remaining delay.
Notifications(callbacks, success, token, now) ==
    [i \in 1..Len(callbacks) |->
        [cb |-> callbacks[i], success |-> success,
         expiration |-> now + GetTokenExpirationDelay(token, now).val]]

NoOp == [name |-> "none", expired |-> FALSE, renews |-> <<>>, armed |-> <<>>,
         notes |-> <<>>, cbs |-> <<>>, want |-> 0]

\* What __init__ finds: no oci executable, no config file, no such profile
\* in it, no security_token_file setting in the profile, a token file that
\* cannot be read, or all of them
ProfileLoads ==
    {"no_cli", "ConfigFileNotFound", "ProfileNotFound", "no_token_file",
     "unreadable", "ok"}

\* __init__, lines 34-35: the only exception the constructor raises;
\* _load_profile catches ConfigFileNotFound and ProfileNotFound (line 84) and
\* _load_security_token catches every exception (line 103)
Constructed(load) == load # "no_cli"

\* self._security_token when __init__ returns
TokensLoaded(load) ==
    IF load = "ok" THEN {t \in InitialTokens : t.some} ELSE {NoneToken}

InitMgr ==
    /\ m_auto_renew = FALSE
    /\ m_load \in ProfileLoads
    /\ m_token \in TokensLoaded(m_load)
    /\ m_timer = 0
    /\ m_timers = <<>>
    /\ m_callbacks = <<>>
    /\ m_pc = IF Constructed(m_load) THEN "idle" ELSE "none"
    /\ m_success = TRUE
    /\ clock = Clock0
    /\ m_op = NoOp
    /\ m_hist = [starts |-> 0, stops |-> 0, attempts |-> 0, stopped |-> FALSE,
                 failed |-> FALSE]

\* add_callback(callback), before the first start(): the callback is a new
\* one (the next number) or one that is registered already
AddCallback(s) ==
    /\ m_pc = "idle"
    /\ m_hist.starts = 0 /\ m_hist.stops = 0
    /\ Len(m_callbacks) < MaxCallbacks
    /\ s \in 1..(Len(m_callbacks) + 1)
    /\ m_callbacks' = Append(m_callbacks, s)
    /\ UNCHANGED <<m_auto_renew, m_token, m_timer, m_timers, m_pc, m_success,
                   clock, m_op, m_hist, m_load>>
    /\ UNCHANGED outsideMgr

\* start(), lines 250-252: self._auto_renew = True; success = True;
\* if self.expired
StartCall ==
    /\ m_pc = "idle"
    /\ m_hist.starts < MaxStarts
    /\ m_auto_renew' = TRUE
    /\ m_success' = TRUE
    /\ m_pc' = IF Expired(m_token, clock) THEN "start_renew" ELSE "start_sched"
    /\ m_op' = [NoOp EXCEPT !.name = "start",
                            !.expired = IssuedTimeToExpiry(m_token, clock) = 0]
    /\ m_hist' = [m_hist EXCEPT !.starts = @ + 1, !.stopped = FALSE,
                                !.failed = FALSE]
    /\ UNCHANGED <<m_token, m_timer, m_timers, m_callbacks, clock, m_load>>
    /\ UNCHANGED outsideMgr

\* start(), line 253: success = self._renew_security_token(force_new=True)
StartRenew ==
    /\ m_pc = "start_renew"
    /\ \E o \in RenewOutcomes :
        /\ m_token' = TokenAfterRenew(o, m_token, clock)
        /\ m_success' = RenewReturns(o)
        /\ m_op' = [m_op EXCEPT !.renews =
                        Append(@, RenewRecord(TRUE, o, m_token, clock))]
    /\ m_pc' = "start_notify"
    /\ m_hist' = [m_hist EXCEPT !.attempts = @ + 1]
    /\ UNCHANGED <<m_auto_renew, m_timer, m_timers, m_callbacks, clock, m_load>>
    /\ UNCHANGED outsideMgr

\* what start() and _renew_token record of their call to _notify_callbacks:
\* the calls made, the callbacks registered, and the expiration the token
\* was issued with
Noted(op, success) ==
    [op EXCEPT
        !.notes = @ \o Notifications(m_callbacks, success, m_token, clock),
        !.cbs = m_callbacks,
        !.want = clock + IssuedTimeToExpiry(m_token, clock)]

\* start(), line 255: self._schedule_token_renewal(), and lines 256-259:
\* self._notify_callbacks(success, expiration_time)
StartSchedule ==
    /\ m_pc = "start_sched"
    /\ Len(m_timers) < MaxTimers
    /\ m_timers' = ScheduleTokenRenewal(m_timers, m_token, clock)
    /\ m_timer' = Len(m_timers')
    /\ m_pc' = "idle"
    /\ m_op' = Noted([m_op EXCEPT !.armed = Append(@, Len(m_timers'))], m_success)
    /\ UNCHANGED <<m_auto_renew, m_token, m_callbacks, m_success, clock, m_hist, m_load>>
    /\ UNCHANGED outsideMgr

\* start(), lines 256-259 after the forced renewal:
\* self._notify_callbacks(success, expiration_time)
StartNotify ==
    /\ m_pc = "start_notify"
    /\ m_pc' = "idle"
    /\ m_op' = Noted(m_op, m_success)
    /\ UNCHANGED <<m_auto_renew, m_token, m_timer, m_timers, m_callbacks,
                   m_success, clock, m_hist, m_load>>
    /\ UNCHANGED outsideMgr

\* stop(), line 266: self._auto_renew = False
StopCall ==
    /\ m_pc = "idle"
    /\ m_hist.stops < MaxStops
    /\ m_auto_renew' = FALSE
    /\ m_pc' = "stop_cancel"
    /\ m_op' = [NoOp EXCEPT !.name = "stop"]
    /\ m_hist' = [m_hist EXCEPT !.stops = @ + 1]
    /\ UNCHANGED <<m_token, m_timer, m_timers, m_callbacks, m_success, clock, m_load>>
    /\ UNCHANGED outsideMgr

\* stop(), lines 267-268: if self._timer: self._timer.cancel(); stop() returns
StopCancel ==
    /\ m_pc = "stop_cancel"
    /\ m_timers' = IF m_timer # 0 THEN CancelTimer(m_timers, m_timer) ELSE m_timers
    /\ m_pc' = "idle"
    /\ m_hist' = [m_hist EXCEPT !.stopped = TRUE]
    /\ UNCHANGED <<m_auto_renew, m_token, m_timer, m_callbacks, m_success,
                   clock, m_op, m_load>>
    /\ UNCHANGED outsideMgr

\* a timer thread that renews without testing the flag
GuardIgnored == TRUE

\* _renew_token, line 236: whether the renewal goes ahead
RenewTokenGuard == m_auto_renew

\* The timer's interval has elapsed and it was not cancelled: its thread
\* calls self._renew_token() (force_new keeps its default, False), which
\* tests self._auto_renew (line 236).
TimerFire(t) ==
    /\ m_timers[t].st = "pending"
    /\ clock >= m_timers[t].fireAt
    /\ m_timers' = [m_timers EXCEPT
                      ![t].st = IF RenewTokenGuard THEN "renew" ELSE "done",
                      ![t].chk = IF m_hist.stopped THEN "stopped"
                                 ELSE IF m_auto_renew THEN "armed" ELSE "off"]
    /\ UNCHANGED <<m_auto_renew, m_token, m_timer, m_callbacks, m_pc,
                   m_success, clock, m_op, m_hist, m_load>>
    /\ UNCHANGED outsideMgr

\* the force_new argument the timer passes to _renew_token (its default)
TimerForceNew == FALSE

\* _renew_token, line 237: success = self._renew_security_token(force_new)
RenewTokenRenew(t) ==
    /\ m_timers[t].st = "renew"
    /\ \E o \in RenewOutcomes :
        /\ m_token' = TokenAfterRenew(o, m_token, clock)
        /\ m_timers' = [m_timers EXCEPT
                          ![t].succ = RenewReturns(o),
                          ![t].st = "finish",
                          ![t].renews = Append(@,
                              RenewRecord(TimerForceNew, o, m_token, clock))]
        /\ m_hist' = [m_hist EXCEPT !.attempts = @ + 1,
                                    !.failed = @ \/ ~RenewReturns(o)]
    /\ UNCHANGED <<m_auto_renew, m_timer, m_callbacks, m_pc, m_success,
                   clock, m_op, m_load>>
    /\ UNCHANGED outsideMgr

\* _renew_token, lines 238-243: if success: self._schedule_token_renewal();
\* then self._notify_callbacks(success, expiration_time)
RenewTokenFinish(t) ==
    /\ m_timers[t].st = "finish"
    /\ m_timers[t].succ => Len(m_timers) < MaxTimers
    /\ LET me == Noted([m_timers[t] EXCEPT
                          !.st = "done",
                          !.armed = IF m_timers[t].succ
                                    THEN Append(@, Len(m_timers) + 1) ELSE @],
                       m_timers[t].succ)
           ts == [m_timers EXCEPT ![t] = me]
       IN  /\ m_timers' = IF m_timers[t].succ
                          THEN ScheduleTokenRenewal(ts, m_token, clock)
                          ELSE ts
           /\ m_timer' = IF m_timers[t].succ THEN Len(m_timers') ELSE m_timer
    /\ UNCHANGED <<m_auto_renew, m_token, m_callbacks, m_pc, m_success,
                   clock, m_op, m_hist, m_load>>
    /\ UNCHANGED outsideMgr

\* Time passes, up to the moment a waiting timer is due.
TickTargets ==
    {m_timers[t].fireAt : t \in {u \in 1..Len(m_timers) : m_timers[u].st = "pending"}}

Tick ==
    /\ \E c \in TickTargets :
        /\ c > clock
        /\ clock' = c
    /\ UNCHANGED <<m_auto_renew, m_token, m_timer, m_timers, m_callbacks,
                   m_pc, m_success, m_op, m_hist, m_load>>
    /\ UNCHANGED outsideMgr

\* every subscriber registers once
NextMgr ==
    \/ \E s \in Subscribers : s = Len(m_callbacks) + 1 /\ AddCallback(s)
    \/ StartCall
    \/ StartRenew
    \/ StartSchedule
    \/ StartNotify
    \/ StopCall
    \/ StopCancel
    \/ \E t \in 1..Len(m_timers) : TimerFire(t)
    \/ \E t \in 1..Len(m_timers) : RenewTokenRenew(t)
    \/ \E t \in 1..Len(m_timers) : RenewTokenFinish(t)
    \/ Tick

(***************************************************************************)
(* SSHConnection: connect(), disconnect(), toggle(), the connected setter  *)
(* and the worker thread run_ssh                                           *)
(***************************************************************************)
MinRetries == 1        \* connectionmaxretries is validated to be at least 1
MaxRetries == 2        \* largest connectionmaxretries explored
MaxConnects == 1       \* connect() calls (worker threads) in a run
MaxCycles == 2         \* connect() cycles, one after the other, in a run
MaxDisconnects == 1    \* disconnect() calls in a run
MaxProcs == 3          \* ssh subprocesses launched in a run
MaxSubscribers == 2    \* callbacks registered in a run
MaxAssigns == 4        \* direct assignments to `connected` in a run
CheckInterval == 10    \* checkconnectioninterval, seconds

Caller == 0
Workers == 1..Max(MaxConnects, MaxCycles)
Threads == {Caller} \cup Workers
SshSubscribers == 1..MaxSubscribers

\* stderr of an ssh subprocess: empty, an error message, a message with
\* "Permission denied" in it, bytes that are not UTF-8
StderrKinds == {"none", "err", "perm", "bad"}

\* stderr.decode().strip(): the message kept, when the bytes decode
Decodes(stderr) == stderr # "bad"

\* a worker that does not look for the denial
DenialIgnored(err) == FALSE

\* `"Permission denied" in error_message`
PermissionDenied(err) == err = "perm"

\* the while condition of run_ssh, line 62
LoopGuard(should_reconnect, retry_count, max_retries) ==
    should_reconnect /\ retry_count <= max_retries

\* a budget that is one retry short
ExhaustedOneEarly(retry_count, max_retries) == retry_count >= max_retries

\* `self._retry_count > self._max_retries`, line 89
RetriesExhausted(retry_count, max_retries) == retry_count > max_retries

\* a setter without the test of line 30
NeverSame(current, value) == FALSE

\* `if self._connected == value: return`, line 30
SameValue(current, value) == current = value

\* ---- the connected setter, lines 28-35, and _notify_callbacks, 119-123
NoFrame == [on |-> FALSE]
NewFrame(value) == [on |-> TRUE, value |-> value, stage |-> "check", idx |-> 0]

NoDelivery == [on |-> FALSE]

\* line 30: return when the value is the current one
SetterCheck(th) ==
    /\ s_set[th].on
    /\ s_set[th].stage = "check"
    /\ s_set' = [s_set EXCEPT ![th] =
                    IF SameValue(s_connected, s_set[th].value) THEN NoFrame
                    ELSE [@ EXCEPT !.stage = "assign"]]
    /\ UNCHANGED <<s_connected, s_callbacks, s_process, s_procs, s_retry_count,
                   s_max_retries, s_should_reconnect, s_workers, s_cpc,
                   s_notes, s_hist>>
    /\ UNCHANGED outsideSSH

\* line 32: self._connected = value; then _notify_callbacks() begins
SetterAssign(th) ==
    /\ s_set[th].on
    /\ s_set[th].stage = "assign"
    /\ s_connected' = s_set[th].value
    /\ s_hist' = [s_hist EXCEPT
                    !.changes = @ + (IF s_connected # s_set[th].value THEN 1 ELSE 0)]
    /\ s_set' = [s_set EXCEPT ![th] =
                    IF Len(s_callbacks) = 0 THEN NoFrame
                    ELSE [@ EXCEPT !.stage = "notify", !.idx = 1]]
    /\ UNCHANGED <<s_callbacks, s_process, s_procs, s_retry_count,
                   s_max_retries, s_should_reconnect, s_workers, s_cpc, s_notes>>
    /\ UNCHANGED outsideSSH

\* lines 122-123, one turn of the loop: callback(self._connected)
SetterNotify(th) ==
    /\ s_set[th].on
    /\ s_set[th].stage = "notify"
    /\ LET sub == s_callbacks[s_set[th].idx] IN
        /\ s_notes' = [s_notes EXCEPT ![sub] =
                          [n |-> @.n + 1, last |-> <<s_connected>>]]
        /\ s_hist' = [s_hist EXCEPT
                          !.deliv =
                              [on |-> TRUE, sub |-> sub, val |-> s_connected,
                               prev |-> s_notes[sub].last,
                               assigned |-> s_set[th].value],
                          !.op = IF @.on THEN [@ EXCEPT !.order = Append(@, sub)]
                                 ELSE @]
    /\ s_set' = [s_set EXCEPT ![th] =
                    IF s_set[th].idx = Len(s_callbacks) THEN NoFrame
                    ELSE [@ EXCEPT !.idx = @ + 1]]
    /\ UNCHANGED <<s_connected, s_callbacks, s_process, s_procs, s_retry_count,
                   s_max_retries, s_should_reconnect, s_workers, s_cpc>>
    /\ UNCHANGED outsideSSH

\* ---- the calling thread
NoOps == s_hist.connects = 0 /\ s_hist.disconnects = 0 /\ s_hist.assigns = 0

\* register_connection_callback, lines 114-117
RegisterConnectionCallback(sub) ==
    /\ s_cpc = "idle"
    /\ NoOps
    /\ Len(s_callbacks) < MaxSubscribers
    /\ sub \in 1..(Len(s_callbacks) + 1)
    /\ s_callbacks' = Append(s_callbacks, sub)
    /\ UNCHANGED <<s_connected, s_process, s_procs, s_retry_count,
                   s_max_retries, s_should_reconnect, s_workers, s_cpc, s_set,
                   s_notes, s_hist>>
    /\ UNCHANGED outsideSSH

NewWorker ==
    [pc |-> "loop", err |-> "none", proc |-> 0, launches |-> 0, sleeps |-> 0,
     nap |-> CheckInterval, rc0 |-> s_retry_count, plain |-> TRUE,
     perm |-> FALSE, permL |-> 0, permS |-> 0, clean |-> 0, since |-> 0,
     spawns |-> 0, died |-> FALSE]

\* connect(), lines 37-95: line 40, then the thread is started
StartWorker ==
    /\ s_should_reconnect' = TRUE
    /\ s_workers' = Append(s_workers, NewWorker)
    /\ s_hist' = [s_hist EXCEPT !.connects = @ + 1, !.discd = FALSE]
    /\ UNCHANGED <<s_connected, s_callbacks, s_process, s_procs, s_retry_count,
                   s_max_retries, s_cpc, s_set, s_notes>>

Connect ==
    /\ s_hist.connects < MaxConnects
    /\ StartWorker

\* disconnect(), line 100
Disconnect ==
    /\ s_hist.disconnects < MaxDisconnects
    /\ s_should_reconnect' = FALSE
    /\ s_cpc' = "disc_term"
    /\ s_hist' = [s_hist EXCEPT !.disconnects = @ + 1]
    /\ UNCHANGED <<s_connected, s_callbacks, s_process, s_procs, s_retry_count,
                   s_max_retries, s_workers, s_set, s_notes>>

ConnectCall ==
    /\ s_cpc = "idle"
    /\ s_hist.assigns = 0
    /\ Connect
    /\ UNCHANGED outsideSSH

DisconnectCall ==
    /\ s_cpc = "idle"
    /\ s_hist.assigns = 0
    /\ Disconnect
    /\ UNCHANGED outsideSSH

\* toggle() with its two branches exchanged
ToggleInverted ==
    /\ s_cpc = "idle"
    /\ s_hist.assigns = 0
    /\ IF s_connected THEN Connect ELSE Disconnect
    /\ UNCHANGED outsideSSH

\* toggle(), lines 107-112
ToggleCall ==
    /\ s_cpc = "idle"
    /\ s_hist.assigns = 0
    /\ IF s_connected THEN Disconnect ELSE Connect
    /\ UNCHANGED outsideSSH

\* a running process ends when terminated; what it leaves on stderr is its own
TerminatedKinds == {"none", "err"}

\* disconnect(), lines 101-105: terminate() and wait() when the process runs,
\* then `self.connected = False` begins
DisconnectTerminate ==
    /\ s_cpc = "disc_term"
    /\ IF s_process # 0 /\ s_procs[s_process].st = "running"
       THEN \E k \in TerminatedKinds :
               s_procs' = [s_procs EXCEPT ![s_process] =
                              [@ EXCEPT !.st = "exited", !.err = k]]
       ELSE UNCHANGED s_procs
    /\ s_set' = [s_set EXCEPT ![Caller] = NewFrame(FALSE)]
    /\ s_cpc' = "disc_set"
    /\ UNCHANGED <<s_connected, s_callbacks, s_process, s_retry_count,
                   s_max_retries, s_should_reconnect, s_workers, s_notes, s_hist>>
    /\ UNCHANGED outsideSSH

\* disconnect() returns once the setter has
DisconnectReturn ==
    /\ s_cpc = "disc_set"
    /\ ~s_set[Caller].on
    /\ s_cpc' = "idle"
    /\ s_hist' = [s_hist EXCEPT !.discd = TRUE, !.procs0 = Len(s_procs)]
    /\ UNCHANGED <<s_connected, s_callbacks, s_process, s_procs, s_retry_count,
                   s_max_retries, s_should_reconnect, s_workers, s_set,
                   s_notes>>
    /\ UNCHANGED outsideSSH

\* `obj.connected = value` by the only thread there is
AssignCall(value) ==
    /\ s_cpc = "idle"
    /\ s_hist.connects = 0 /\ s_hist.disconnects = 0
    /\ s_hist.assigns < MaxAssigns
    /\ s_set' = [s_set EXCEPT ![Caller] = NewFrame(value)]
    /\ s_cpc' = "assign"
    /\ s_hist' = [s_hist EXCEPT
                    !.assigns = @ + 1,
                    !.op = [on |-> TRUE, value |-> value, prev |-> s_connected,
                            notes |-> s_notes, changes |-> s_hist.changes,
                            order |-> <<>>]]
    /\ UNCHANGED <<s_connected, s_callbacks, s_process, s_procs, s_retry_count,
                   s_max_retries, s_should_reconnect, s_workers, s_notes>>
    /\ UNCHANGED outsideSSH

AssignReturn ==
    /\ s_cpc = "assign"
    /\ ~s_set[Caller].on
    /\ s_cpc' = "idle"
    /\ UNCHANGED <<s_connected, s_callbacks, s_process, s_procs, s_retry_count,
                   s_max_retries, s_should_reconnect, s_workers, s_set,
                   s_notes, s_hist>>
    /\ UNCHANGED outsideSSH

\* ---- the worker thread, run_ssh, lines 61-93
\* line 62, the while condition; line 63 clears error_message
WorkerLoop(w) ==
    /\ s_workers[w].pc = "loop"
    /\ s_workers' = [s_workers EXCEPT ![w] =
                        IF LoopGuard(s_should_reconnect, s_retry_count, s_max_retries)
                        THEN [@ EXCEPT !.pc = "popen", !.err = "none"]
                        ELSE [@ EXCEPT !.pc = "done"]]
    /\ UNCHANGED <<s_connected, s_callbacks, s_process, s_procs, s_retry_count,
                   s_max_retries, s_should_reconnect, s_cpc, s_set, s_notes,
                   s_hist>>
    /\ UNCHANGED outsideSSH

NewProc == [st |-> "running", err |-> "none"]

\* lines 65-69: self._process = subprocess.Popen(...)
WorkerPopen(w) ==
    /\ s_workers[w].pc = "popen"
    /\ Len(s_procs) < MaxProcs
    /\ s_procs' = Append(s_procs, NewProc)
    /\ s_process' = Len(s_procs) + 1
    /\ s_workers' = [s_workers EXCEPT ![w] =
                        [@ EXCEPT !.pc = "communicate", !.launches = @ + 1]]
    /\ UNCHANGED <<s_connected, s_callbacks, s_retry_count, s_max_retries,
                   s_should_reconnect, s_cpc, s_set, s_notes, s_hist>>
    /\ UNCHANGED outsideSSH

\* Popen raises and nothing catches the exception: the thread ends
WorkerPopenEscapes(w) ==
    /\ s_workers[w].pc = "popen"
    /\ s_workers' = [s_workers EXCEPT ![w] =
                        [@ EXCEPT !.pc = "done", !.plain = FALSE,
                                  !.since = @ + 1, !.spawns = @ + 1]]
    /\ UNCHANGED <<s_connected, s_callbacks, s_process, s_procs, s_retry_count,
                   s_max_retries, s_should_reconnect, s_cpc, s_set, s_notes,
                   s_hist>>
    /\ UNCHANGED outsideSSH

\* lines 65-69 when Popen raises (no ssh executable, no more processes):
\* line 79, then the finally block begins with `self.connected = False`
WorkerPopenRaises(w) ==
    /\ s_workers[w].pc = "popen"
    /\ s_workers' = [s_workers EXCEPT ![w] =
                        [@ EXCEPT !.pc = "finally", !.plain = FALSE,
                                  !.since = @ + 1, !.spawns = @ + 1]]
    /\ s_set' = [s_set EXCEPT ![w] = NewFrame(FALSE)]
    /\ UNCHANGED <<s_connected, s_callbacks, s_process, s_procs, s_retry_count,
                   s_max_retries, s_should_reconnect, s_cpc, s_notes, s_hist>>
    /\ UNCHANGED outsideSSH

\* line 71: self._process is read and communicate() is entered
WorkerCommunicate(w) ==
    /\ s_workers[w].pc = "communicate"
    /\ s_workers' = [s_workers EXCEPT ![w] =
                        [@ EXCEPT !.pc = "waiting", !.proc = s_process]]
    /\ UNCHANGED <<s_connected, s_callbacks, s_process, s_procs, s_retry_count,
                   s_max_retries, s_should_reconnect, s_cpc, s_set, s_notes,
                   s_hist>>
    /\ UNCHANGED outsideSSH

\* the ssh subprocess ends by itself
ProcExit(p, kind) ==
    /\ s_procs[p].st = "running"
    /\ s_procs' = [s_procs EXCEPT ![p] = [@ EXCEPT !.st = "exited", !.err = kind]]
    /\ UNCHANGED <<s_connected, s_callbacks, s_process, s_retry_count,
                   s_max_retries, s_should_reconnect, s_workers, s_cpc, s_set,
                   s_notes, s_hist>>
    /\ UNCHANGED outsideSSH

\* lines 71-81: communicate() returns once the process has ended. Non-empty
\* stderr is decoded and kept as error_message (when decode() raises, line 79
\* logs it and error_message stays empty) and the finally block begins;
\* empty stderr begins `self.connected = True`.
WorkerReturn(w) ==
    /\ s_workers[w].pc = "waiting"
    /\ s_procs[s_workers[w].proc].st = "exited"
    /\ LET err == s_procs[s_workers[w].proc].err IN
        IF err # "none"
        THEN /\ s_workers' = [s_workers EXCEPT ![w] =
                    [@ EXCEPT !.pc = "finally",
                              !.since = @ + 1,
                              !.err = IF Decodes(err) THEN err ELSE "none",
                              !.plain = @ /\ err = "err",
                              !.perm = err = "perm",
                              !.permL = s_workers[w].launches,
                              !.permS = s_workers[w].sleeps]]
             /\ s_set' = [s_set EXCEPT ![w] = NewFrame(FALSE)]
        ELSE /\ s_workers' = [s_workers EXCEPT ![w] =
                    [@ EXCEPT !.pc = "set_true", !.plain = FALSE,
                              !.clean = @ + 1, !.since = 0]]
             /\ s_set' = [s_set EXCEPT ![w] = NewFrame(TRUE)]
    /\ UNCHANGED <<s_connected, s_callbacks, s_process, s_procs, s_retry_count,
                   s_max_retries, s_should_reconnect, s_cpc, s_notes, s_hist>>
    /\ UNCHANGED outsideSSH

\* a clean exit that leaves the count as it is
KeepCount(count) == count

\* line 77: self._retry_count = 0
ResetCount(count) == 0

\* line 77, after `self.connected = True` has returned; then the finally
\* block begins with `self.connected = False`
WorkerConnected(w) ==
    /\ s_workers[w].pc = "set_true"
    /\ ~s_set[w].on
    /\ s_retry_count' = ResetCount(s_retry_count)
    /\ s_workers' = [s_workers EXCEPT ![w] = [@ EXCEPT !.pc = "finally"]]
    /\ s_set' = [s_set EXCEPT ![w] = NewFrame(FALSE)]
    /\ UNCHANGED <<s_connected, s_callbacks, s_process, s_procs, s_max_retries,
                   s_should_reconnect, s_cpc, s_notes, s_hist>>
    /\ UNCHANGED outsideSSH

\* lines 82-91, after `self.connected = False` has returned
WorkerFinally(w) ==
    /\ s_workers[w].pc = "finally"
    /\ ~s_set[w].on
    /\ IF ~s_should_reconnect \/ PermissionDenied(s_workers[w].err)
       THEN /\ s_retry_count' = 0
            /\ s_workers' = [s_workers EXCEPT ![w] = [@ EXCEPT !.pc = "done"]]
       ELSE /\ s_retry_count' = s_retry_count + 1
            /\ s_workers' = [s_workers EXCEPT ![w] =
                   [@ EXCEPT !.pc =
                       IF RetriesExhausted(s_retry_count + 1, s_max_retries)
                       THEN "done" ELSE "sleep"]]
    /\ UNCHANGED <<s_connected, s_callbacks, s_process, s_procs, s_max_retries,
                   s_should_reconnect, s_cpc, s_set, s_notes, s_hist>>
    /\ UNCHANGED outsideSSH

\* line 93: time.sleep(self._check_interval)
WorkerSleep(w) ==
    /\ s_workers[w].pc = "sleep"
    /\ s_workers' = [s_workers EXCEPT ![w] =
                        [@ EXCEPT !.pc = "loop", !.sleeps = @ + 1,
                                  !.nap = CheckInterval]]
    /\ UNCHANGED <<s_connected, s_callbacks, s_process, s_procs, s_retry_count,
                   s_max_retries, s_should_reconnect, s_cpc, s_set, s_notes,
                   s_hist>>
    /\ UNCHANGED outsideSSH

\* lines 122-123 when the callback called raises: the loop and the setter
\* are left with the exception. In a worker, line 76 is inside the try
\* block: line 78 catches, line 77 is skipped and the finally block begins;
\* line 82 is inside the finally block: the exception leaves run_ssh and
\* the thread ends. In the calling thread it leaves the call.
SetterNotifyRaises(th) ==
    /\ s_set[th].on
    /\ s_set[th].stage = "notify"
    /\ s_notes' = [s_notes EXCEPT ![s_callbacks[s_set[th].idx]] =
                      [n |-> @.n + 1, last |-> <<s_connected>>]]
    /\ s_hist' = [s_hist EXCEPT
                    !.skipped = @ + Len(s_callbacks) - s_set[th].idx]
    /\ IF th = Caller
       THEN /\ s_cpc' = "idle"
            /\ s_set' = [s_set EXCEPT ![th] = NoFrame]
            /\ UNCHANGED s_workers
       ELSE IF s_workers[th].pc = "set_true"
       THEN /\ s_workers' = [s_workers EXCEPT ![th] =
                                [@ EXCEPT !.pc = "finally"]]
            /\ s_set' = [s_set EXCEPT ![th] = NewFrame(FALSE)]
            /\ UNCHANGED s_cpc
       ELSE /\ s_workers' = [s_workers EXCEPT ![th] =
                                [@ EXCEPT !.pc = "done", !.died = TRUE]]
            /\ s_set' = [s_set EXCEPT ![th] = NoFrame]
            /\ UNCHANGED s_cpc
    /\ UNCHANGED <<s_connected, s_callbacks, s_process, s_procs, s_retry_count,
                   s_max_retries, s_should_reconnect>>
    /\ UNCHANGED outsideSSH

\* SSHConnection.__init__, lines 11-19
InitSSH ==
    /\ s_connected = FALSE
    /\ s_callbacks = <<>>
    /\ s_process = 0
    /\ s_procs = <<>>
    /\ s_retry_count = 0
    /\ s_max_retries \in MinRetries..MaxRetries
    /\ s_should_reconnect = TRUE
    /\ s_workers = <<>>
    /\ s_cpc = "idle"
    /\ s_set = [th \in Threads |-> NoFrame]
    /\ s_notes = [sub \in SshSubscribers |-> [n |-> 0, last |-> <<>>]]
    /\ s_hist = [connects |-> 0, disconnects |-> 0, assigns |-> 0,
                 discd |-> FALSE, procs0 |-> 0,
                 changes |-> 0, deliv |-> NoDelivery, op |-> [on |-> FALSE],
                 skipped |-> 0]

\* the supervisor when nothing is done with it
IdleSSH ==
    /\ InitSSH
    /\ s_max_retries = MinRetries

NextSSH ==
    \/ \E sub \in SshSubscribers :
            sub = Len(s_callbacks) + 1 /\ RegisterConnectionCallback(sub)
    \/ ConnectCall
    \/ DisconnectCall
    \/ ToggleCall
    \/ DisconnectTerminate
    \/ DisconnectReturn
    \/ \E th \in Threads : SetterCheck(th)
    \/ \E th \in Threads : SetterAssign(th)
    \/ \E th \in Threads : SetterNotify(th)
    \/ \E w \in 1..Len(s_workers) : WorkerLoop(w)
    \/ \E w \in 1..Len(s_workers) : WorkerPopen(w)
    \/ \E w \in 1..Len(s_workers) : WorkerPopenRaises(w)
    \/ \E w \in 1..Len(s_workers) : WorkerCommunicate(w)
    \/ \E p \in 1..Len(s_procs), kind \in StderrKinds : ProcExit(p, kind)
    \/ \E w \in 1..Len(s_workers) : WorkerReturn(w)
    \/ \E w \in 1..Len(s_workers) : WorkerConnected(w)
    \/ \E w \in 1..Len(s_workers) : WorkerFinally(w)
    \/ \E w \in 1..Len(s_workers) : WorkerSleep(w)

\* connect() when it is the first call of the run
FirstConnect ==
    /\ s_hist.connects = 0
    /\ ConnectCall

\* toggle() that disconnects, or connects as the first call of the run
FirstToggle ==
    /\ s_connected \/ s_hist.connects = 0
    /\ ToggleCall

\* one connect() cycle: a single worker thread, and a calling thread that
\* may disconnect
NextCycle ==
    \/ \E sub \in SshSubscribers :
            sub = Len(s_callbacks) + 1 /\ RegisterConnectionCallback(sub)
    \/ FirstConnect
    \/ FirstToggle
    \/ DisconnectCall
    \/ DisconnectTerminate
    \/ DisconnectReturn
    \/ \E th \in Threads : SetterCheck(th)
    \/ \E th \in Threads : SetterAssign(th)
    \/ \E th \in Threads : SetterNotify(th)
    \/ \E w \in 1..Len(s_workers) : WorkerLoop(w)
    \/ \E w \in 1..Len(s_workers) : WorkerPopen(w)
    \/ \E w \in 1..Len(s_workers) : WorkerPopenRaises(w)
    \/ \E w \in 1..Len(s_workers) : WorkerCommunicate(w)
    \/ \E p \in 1..Len(s_procs), kind \in StderrKinds : ProcExit(p, kind)
    \/ \E w \in 1..Len(s_workers) : WorkerReturn(w)
    \/ \E w \in 1..Len(s_workers) : WorkerConnected(w)
    \/ \E w \in 1..Len(s_workers) : WorkerFinally(w)
    \/ \E w \in 1..Len(s_workers) : WorkerSleep(w)

\* a step of the thread that called disconnect()
CallerStep ==
    \/ DisconnectTerminate
    \/ DisconnectReturn
    \/ SetterCheck(Caller)
    \/ SetterAssign(Caller)
    \/ SetterNotify(Caller)

\* a step of worker thread w; a subprocess ending by itself is no step of it
WorkerStep(w) ==
    /\ w \in 1..Len(s_workers)
    /\ \/ WorkerLoop(w)
       \/ WorkerPopen(w)
       \/ WorkerPopenRaises(w)
       \/ WorkerCommunicate(w)
       \/ WorkerReturn(w)
       \/ WorkerConnected(w)
       \/ WorkerFinally(w)
       \/ WorkerSleep(w)
       \/ SetterCheck(w)
       \/ SetterAssign(w)
       \/ SetterNotify(w)

\* every thread that can run does run; nothing makes a forwarding ssh end
FairThreads ==
    /\ WF_vars(CallerStep)
    /\ \A w \in Workers : WF_vars(WorkerStep(w))

\* connect() called again when the worker of the cycle before has ended
NextConnect ==
    /\ s_cpc = "idle"
    /\ s_hist.assigns = 0
    /\ s_hist.connects \in 1..(MaxCycles - 1)
    /\ \A w \in 1..Len(s_workers) : s_workers[w].pc = "done"
    /\ StartWorker
    /\ UNCHANGED outsideSSH

\* connect() cycles one after the other
NextReconnect ==
    \/ NextCycle
    \/ NextConnect

\* connect() called again while a worker of an earlier connect() has not
\* ended: connect() looks at no state of the supervisor, lines 37-60
ConnectAgain ==
    /\ s_cpc = "idle"
    /\ s_hist.assigns = 0
    /\ s_hist.connects \in 1..(MaxCycles - 1)
    /\ \E w \in 1..Len(s_workers) : s_workers[w].pc # "done"
    /\ StartWorker
    /\ UNCHANGED outsideSSH

\* toggle() that finds connected false after an earlier connect(), lines
\* 107-112: it connects
ToggleAgain ==
    /\ s_cpc = "idle"
    /\ s_hist.assigns = 0
    /\ s_hist.connects \in 1..(MaxCycles - 1)
    /\ ~s_connected
    /\ StartWorker
    /\ UNCHANGED outsideSSH

\* connect() and toggle() called with no regard to the worker there is, at
\* most one subscriber and no disconnect()
NextOverlap ==
    \/ \E sub \in SshSubscribers :
            s_callbacks = <<>> /\ RegisterConnectionCallback(sub)
    \/ FirstConnect
    \/ NextConnect
    \/ ConnectAgain
    \/ ToggleAgain
    \/ \E th \in Threads : SetterCheck(th)
    \/ \E th \in Threads : SetterAssign(th)
    \/ \E th \in Threads : SetterNotify(th)
    \/ \E w \in 1..Len(s_workers) : WorkerLoop(w)
    \/ \E w \in 1..Len(s_workers) : WorkerPopen(w)
    \/ \E w \in 1..Len(s_workers) : WorkerPopenRaises(w)
    \/ \E w \in 1..Len(s_workers) : WorkerCommunicate(w)
    \/ \E p \in 1..Len(s_procs), kind \in StderrKinds : ProcExit(p, kind)
    \/ \E w \in 1..Len(s_workers) : WorkerReturn(w)
    \/ \E w \in 1..Len(s_workers) : WorkerConnected(w)
    \/ \E w \in 1..Len(s_workers) : WorkerFinally(w)
    \/ \E w \in 1..Len(s_workers) : WorkerSleep(w)

\* one connect() cycle with subscribers whose callbacks may raise, and no
\* disconnect()
NextRaise ==
    \/ \E sub \in SshSubscribers :
            sub = Len(s_callbacks) + 1 /\ RegisterConnectionCallback(sub)
    \/ FirstConnect
    \/ \E th \in Threads : SetterCheck(th)
    \/ \E th \in Threads : SetterAssign(th)
    \/ \E th \in Threads : SetterNotify(th)
    \/ \E th \in Threads : SetterNotifyRaises(th)
    \/ \E w \in 1..Len(s_workers) : WorkerLoop(w)
    \/ \E w \in 1..Len(s_workers) : WorkerPopen(w)
    \/ \E w \in 1..Len(s_workers) : WorkerPopenRaises(w)
    \/ \E w \in 1..Len(s_workers) : WorkerCommunicate(w)
    \/ \E p \in 1..Len(s_procs), kind \in StderrKinds : ProcExit(p, kind)
    \/ \E w \in 1..Len(s_workers) : WorkerReturn(w)
    \/ \E w \in 1..Len(s_workers) : WorkerConnected(w)
    \/ \E w \in 1..Len(s_workers) : WorkerFinally(w)
    \/ \E w \in 1..Len(s_workers) : WorkerSleep(w)

\* the connected setter driven by one thread
NextSetter ==
    \/ \E sub \in SshSubscribers :
            sub = Len(s_callbacks) + 1 /\ RegisterConnectionCallback(sub)
    \/ \E value \in BOOLEAN : AssignCall(value)
    \/ SetterCheck(Caller)
    \/ SetterAssign(Caller)
    \/ SetterNotify(Caller)
    \/ AssignReturn

(***************************************************************************)
(* OCIBastionSessions: _generate_bastion_session (provisioning with its    *)
(* poll loop), _renew_session and the session timer                        *)
(***************************************************************************)
MaxProvisions == 2        \* calls of the provisioner in a run
MaxBastionCallbacks == 2  \* add_callback() calls in a run
MaxSets == 2              \* assignments to `connected` in a run
SleepTime == 5            \* self._sleep_time, seconds
MaxSleepTime == 60        \* self._max_sleep_time, seconds
SessionTtl == 10800       \* session_ttl_in_seconds (default)
SessionTtls == {60, SessionTtl}  \* session_ttl_in_seconds in a run
SessionRenewMargin == 120 \* seconds before the end of the session
Accepted == 202           \* the status create_session must return

BastionSubscribers == 1..MaxBastionCallbacks

\* Session.lifecycle_state
LifecycleStates == {"CREATING", "ACTIVE", "FAILED", "DELETED"}

\* status of the response of create_session, when it returns one
\* (200 stands for every status but 202)
ResponseStatuses == {Accepted, 200}

\* Session.creation_time, a text "<date>T<time>Z": the seconds it spells,
\* read as the UTC wall clock
CreationTimes == {3600, 7200}

NoSession == [some |-> FALSE]
SessionIn(state, creation_time) ==
    [some |-> TRUE, state |-> state, creation_time |-> creation_time]

\* `raise ServiceError(<message>)`, lines 245 and 262: the constructor is
\* ServiceError(status, code, headers, message, **kwargs), so the call with
\* one argument raises TypeError before any ServiceError exists
ServiceErrorRaise == "TypeError"

\* `except ServiceError`, line 268
Caught(exc) == exc = "ServiceError"

\* the while condition, lines 252-255
PollGuard(session, sleep_time) ==
    session.state = "CREATING" /\ sleep_time < MaxSleepTime

\* _schedule_session_renewal, lines 182-184
ScheduleSessionRenewal(timers, ttl) ==
    Append(timers, [st |-> "pending",
                    delay |-> ttl - SessionRenewMargin])

\* the session timer that fires: the one that waits, if there is one
FireSessionTimer(timers) ==
    [t \in 1..Len(timers) |-> [timers[t] EXCEPT !.st = "fired"]]

\* the clock of the host, seconds after the epoch, when it is read
Nows == {9000, 18000}

\* the offset of the local zone of the host from UTC, seconds
UtcOffsets == {0, 3600}

\* a datetime: the wall clock it shows, and the offset of its zone when it
\* has one
Naive(wall) == [wall |-> wall, aware |-> FALSE, utcoffset |-> 0]

\* the instant an aware datetime stands for, seconds after the epoch
Instant(dt) == dt.wall - dt.utcoffset

\* datetime.now(), line 290: the local wall clock, no zone
DatetimeNow(now, off) == Naive(now + off)

\* datetime.strptime(text, "%Y-%m-%dT%H:%M:%S.%fZ"), lines 292-294: the
\* "Z" is matched as a letter of the format, the result has no zone
Strptime(creation_time) == Naive(creation_time)

\* datetime + timedelta(seconds=secs)
PlusSeconds(dt, secs) == [dt EXCEPT !.wall = @ + secs]

\* datetime.astimezone(), line 296: a datetime without a zone is taken to
\* show the local wall clock
AsTimezone(dt, off) ==
    [wall |-> IF dt.aware THEN dt.wall - dt.utcoffset + off ELSE dt.wall,
     aware |-> TRUE, utcoffset |-> off]

\* lines 289-296
LocalExpirationTime(session, ttl, now, off) ==
    AsTimezone(IF ~session.some
               THEN DatetimeNow(now, off)
               ELSE PlusSeconds(Strptime(session.creation_time), ttl),
               off)

\* _notify_callbacks, lines 284-299: what each callback is called with
\* (`now` and `off` are the clock and the zone of the host at the call)
BastionNotes(callbacks, session, connected, ttl, now, off) ==
    [i \in 1..Len(callbacks) |->
        [sub |-> callbacks[i],
         state |-> IF session.some THEN session.state ELSE "INACTIVE",
         connected |-> connected,
         expiration |-> LocalExpirationTime(session, ttl, now, off),
         session |-> session,
         now |-> now]]

\* the history after one run of _notify_callbacks
Published(hist, notes) == [hist EXCEPT !.pubs = @ + 1, !.notes = notes]

\* history record of one call of the provisioner
NewCall(via) ==
    [on |-> TRUE, via |-> via, outcome |-> "running", exc |-> "none",
     keyread |-> "none", status |-> 0, creates |-> 0, fetches |-> 0,
     sleeps |-> 0, polled |-> 0, active |-> FALSE, stuck |-> TRUE,
     last |-> "none", auto0 |-> b_auto_renew, notes |-> <<>>, armed |-> 0]

\* add_callback, lines 274-282
BastionAddCallback(sub) ==
    /\ b_pc = "idle"
    /\ b_hist.calls = 0
    /\ b_hist.sets = 0
    /\ Len(b_callbacks) < MaxBastionCallbacks
    /\ sub \in 1..(Len(b_callbacks) + 1)
    /\ b_callbacks' = Append(b_callbacks, sub)
    /\ UNCHANGED <<b_auto_renew, b_session, b_timers, b_pc, b_call, b_hist,
                   b_connected>>
    /\ UNCHANGED b_ttl
    /\ UNCHANGED outsideBastion

\* _generate_bastion_session() called directly
GenerateCall ==
    /\ b_pc = "idle"
    /\ b_hist.calls < MaxProvisions
    /\ b_pc' = "create"
    /\ b_call' = NewCall("direct")
    /\ b_hist' = [b_hist EXCEPT !.calls = @ + 1]
    /\ UNCHANGED <<b_auto_renew, b_session, b_callbacks, b_timers,
                   b_connected>>
    /\ UNCHANGED b_ttl
    /\ UNCHANGED outsideBastion

\* _renew_session(), lines 187-198, called by the session timer: line 192;
\* when auto-renew is off only line 198 is left
RenewSessionCall ==
    /\ b_pc = "idle"
    /\ b_hist.calls < MaxProvisions
    /\ b_timers' = FireSessionTimer(b_timers)
    /\ IF b_auto_renew
       THEN /\ b_pc' = "create"
            /\ b_call' = NewCall("renew")
            /\ b_hist' = [b_hist EXCEPT !.calls = @ + 1]
       ELSE \E now \in Nows, off \in UtcOffsets :
            /\ b_pc' = "idle"
            /\ b_call' = [NewCall("renew") EXCEPT
                            !.outcome = "skipped",
                            !.notes = BastionNotes(b_callbacks, b_session,
                                                   b_connected, b_ttl, now, off)]
            /\ b_hist' = Published([b_hist EXCEPT !.calls = @ + 1],
                                   b_call'.notes)
    /\ UNCHANGED <<b_auto_renew, b_session, b_callbacks, b_connected>>
    /\ UNCHANGED b_ttl
    /\ UNCHANGED outsideBastion

\* lines 271-272: self._auto_renew = success; return success
Returned(call, success) ==
    /\ b_auto_renew' = success
    /\ b_call' = [call EXCEPT !.outcome = IF success THEN "true" ELSE "false"]
    /\ b_pc' = IF call.via = "renew" THEN "renewed" ELSE "idle"

\* an exception the try block does not catch leaves the provisioner, and
\* _renew_session with it
Escaped(call, exc) ==
    /\ b_auto_renew' = b_auto_renew
    /\ b_call' = [call EXCEPT !.outcome = "raised", !.exc = exc]
    /\ b_pc' = "idle"

\* an exception raised inside the try block, lines 218-269
Raise(call, exc) ==
    IF Caught(exc) THEN Returned(call, FALSE) ELSE Escaped(call, exc)

\* file_content(config.keypaths.pubkeypath), utils.py: the content, or the
\* exception of open() / read() raised again
KeyReads == {"ok", "OSError"}

\* create_session: a response with a status, or an exception of the SDK
CreateOutcomes == {"response", "ServiceError"}

\* lines 218-249: the key is read (an argument of the request), the request
\* is submitted, the status is tested, the session is stored
CreateSession ==
    /\ b_pc = "create"
    /\ \E k \in KeyReads :
        IF k # "ok"
        THEN /\ Raise([b_call EXCEPT !.keyread = k], k)
             /\ UNCHANGED b_session
        ELSE \E c \in CreateOutcomes :
            IF c # "response"
            THEN /\ Raise([b_call EXCEPT !.keyread = k, !.creates = 1], c)
                 /\ UNCHANGED b_session
            ELSE \E status \in ResponseStatuses :
                IF status # Accepted
                THEN /\ b_session' = NoSession
                     /\ Raise([b_call EXCEPT !.keyread = k, !.creates = 1,
                                             !.status = status],
                              ServiceErrorRaise)
                ELSE \E s0 \in LifecycleStates :
                     /\ \E ct \in CreationTimes :
                            b_session' = SessionIn(s0, ct)
                     /\ b_call' = [b_call EXCEPT
                                     !.keyread = k, !.creates = 1,
                                     !.status = status, !.last = s0,
                                     !.active = s0 = "ACTIVE",
                                     !.stuck = s0 = "CREATING"]
                     /\ b_pc' = "poll"
                     /\ UNCHANGED b_auto_renew
    /\ UNCHANGED <<b_callbacks, b_timers, b_hist, b_connected>>
    /\ UNCHANGED b_ttl
    /\ UNCHANGED outsideBastion

\* get_session: the session in some state, or an exception of the SDK
FetchOutcomes == LifecycleStates \cup {"ServiceError"}

\* lines 256-259, one turn of the poll loop: sleep, fetch, count the time
PollFetch ==
    /\ b_pc = "poll"
    /\ PollGuard(b_session, b_call.polled)
    /\ \E f \in FetchOutcomes :
        IF f \in LifecycleStates
        THEN /\ b_session' = SessionIn(f, b_session.creation_time)
             /\ b_call' = [b_call EXCEPT
                             !.sleeps = @ + 1, !.fetches = @ + 1,
                             !.polled = @ + SleepTime, !.last = f,
                             !.active = @ \/ f = "ACTIVE",
                             !.stuck = @ /\ f = "CREATING"]
             /\ UNCHANGED <<b_pc, b_auto_renew>>
        ELSE /\ Raise([b_call EXCEPT !.sleeps = @ + 1, !.fetches = @ + 1,
                                     !.stuck = FALSE], f)
             /\ UNCHANGED b_session
    /\ UNCHANGED <<b_callbacks, b_timers, b_hist, b_connected>>
    /\ UNCHANGED b_ttl
    /\ UNCHANGED outsideBastion

\* lines 261-266, the loop being left
PollEnd ==
    /\ b_pc = "poll"
    /\ ~PollGuard(b_session, b_call.polled)
    /\ IF b_session.state # "ACTIVE"
       THEN Raise(b_call, ServiceErrorRaise)
       ELSE Returned(b_call, TRUE)
    /\ UNCHANGED <<b_session, b_callbacks, b_timers, b_hist, b_connected>>
    /\ UNCHANGED b_ttl
    /\ UNCHANGED outsideBastion

\* _renew_session, lines 195-198, after the provisioner has returned
RenewSessionFinish ==
    /\ b_pc = "renewed"
    /\ b_timers' = IF b_call.outcome = "true"
                   THEN ScheduleSessionRenewal(b_timers, b_ttl)
                   ELSE b_timers
    /\ \E now \in Nows, off \in UtcOffsets :
        b_call' = [b_call EXCEPT
                     !.notes = BastionNotes(b_callbacks, b_session,
                                            b_connected, b_ttl, now, off),
                     !.armed = IF b_call.outcome = "true" THEN 1 ELSE 0]
    /\ b_hist' = Published(b_hist, b_call'.notes)
    /\ b_pc' = "idle"
    /\ UNCHANGED <<b_auto_renew, b_session, b_callbacks, b_connected>>
    /\ UNCHANGED b_ttl
    /\ UNCHANGED outsideBastion

\* the connected setter, lines 89-96, called by the worker of the tunnel
\* and by _disconnect
BastionConnectedSet(value) ==
    /\ b_hist.sets < MaxSets
    /\ IF b_connected = value
       THEN /\ b_hist' = [b_hist EXCEPT !.sets = @ + 1]
            /\ UNCHANGED b_connected
       ELSE \E now \in Nows, off \in UtcOffsets :
            /\ b_connected' = value
            /\ b_hist' = Published([b_hist EXCEPT !.sets = @ + 1],
                                   BastionNotes(b_callbacks, b_session,
                                                value, b_ttl, now, off))
    /\ UNCHANGED <<b_auto_renew, b_session, b_callbacks, b_timers, b_pc,
                   b_call>>
    /\ UNCHANGED b_ttl
    /\ UNCHANGED outsideBastion

\* OCIBastionSessions.__init__, lines 55-78
InitBastion ==
    /\ b_auto_renew = FALSE
    /\ b_session = NoSession
    /\ b_callbacks = <<>>
    /\ b_timers = <<>>
    /\ b_pc = "idle"
    /\ b_call = [on |-> FALSE]
    /\ b_hist = [calls |-> 0, sets |-> 0, pubs |-> 0, notes |-> <<>>]
    /\ b_connected = FALSE
    /\ b_ttl \in SessionTtls

\* the provisioner constructed with the default TTL
IdleBastion ==
    /\ InitBastion
    /\ b_ttl = SessionTtl

NextBastion ==
    \/ \E sub \in BastionSubscribers : BastionAddCallback(sub)
    \/ GenerateCall
    \/ RenewSessionCall
    \/ CreateSession
    \/ PollFetch
    \/ PollEnd
    \/ RenewSessionFinish
    \/ \E value \in BOOLEAN : BastionConnectedSet(value)

(***************************************************************************)
(* OCISessionManager.config: the loaded profile with the overrides         *)
(***************************************************************************)
MaxReads == 2   \* reads of `config` in a run

\* the keys and the values of the dicts; Absent marks a key a dict has not
Keys == {"region", "tenancy"}
Values == {"a", "b"}
Absent == "absent"
Dicts == [Keys -> Values \cup {Absent}]

\* the dict objects: self._config, self._config_overrides, and the dicts
\* made by the reads
Loaded == 1
Overrides == 2
Objects == 1..(2 + MaxReads)

\* dict.update(other), line 116: the keys of `other` are set, the rest stays
DictUpdate(d, other) ==
    [k \in Keys |-> IF other[k] # Absent THEN other[k] ELSE d[k]]

\* a read that updates self._config in place and returns it
ConfigGetView ==
    /\ c_ret < 2 + MaxReads
    /\ c_heap' = [c_heap EXCEPT ![Loaded] = DictUpdate(@, c_heap[Overrides])]
    /\ c_ret' = Loaded
    /\ UNCHANGED c_orig
    /\ UNCHANGED outsideCfg

\* the property `config`, lines 107-117: a new dict, copy of self._config,
\* updated with the overrides
ConfigGet ==
    /\ c_ret < 2 + MaxReads
    /\ \E new \in Objects :
        /\ new = Max(c_ret, Overrides) + 1
        /\ c_heap' = [c_heap EXCEPT
                         ![new] = DictUpdate(c_heap[Loaded], c_heap[Overrides])]
        /\ c_ret' = new
    /\ UNCHANGED c_orig
    /\ UNCHANGED outsideCfg

\* the caller changes the dict it was handed: d[k] = v, or del d[k]
CallerSets(k, v) ==
    /\ c_ret # 0
    /\ c_heap[c_ret][k] # v
    /\ c_heap' = [c_heap EXCEPT ![c_ret][k] = v]
    /\ UNCHANGED <<c_ret, c_orig>>
    /\ UNCHANGED outsideCfg

\* __init__, lines 40-41, and _load_profile, lines 79-81
InitConfig ==
    /\ \E loaded \in Dicts, over \in Dicts :
        /\ c_heap = [o \in Objects |->
                        IF o = Loaded THEN loaded
                        ELSE IF o = Overrides THEN over
                        ELSE [k \in Keys |-> Absent]]
        /\ c_orig = <<loaded, over>>
    /\ c_ret = 0

\* the configuration at rest: nothing loaded, no overrides
IdleConfig ==
    /\ InitConfig
    /\ c_orig = <<[k \in Keys |-> Absent], [k \in Keys |-> Absent]>>

NextConfig ==
    \/ ConfigGet
    \/ \E k \in Keys, v \in Values \cup {Absent} : CallerSets(k, v)

(***************************************************************************)
(* modules/config.py: _debounce_save_config and _save_config. One thread   *)
(* changes the configuration; each Timer runs _save_config on a thread of  *)
(* its own. Every read of the global _save_timer is a step.                *)
(***************************************************************************)
MaxChanges == 3           \* changes of the configuration in a run

NoTimer == 0              \* _save_timer = None

\* Timer.cancel(): the function of a timer that has not fired is not run
Cancelled(timers, t) ==
    [timers EXCEPT ![t].st =
        IF @ \in {"created", "pending"} THEN "cancelled" ELSE @]

\* TrackableBaseModel.__setattr__ with another value: _notify_subscribers
\* calls _debounce_save_config, line 61: `if _save_timer:`
ChangeCall ==
    /\ g_pc = "idle"
    /\ g_hist.changes < MaxChanges
    /\ g_pc' = IF g_save_timer # NoTimer THEN "cancel" ELSE "arm"
    /\ g_hist' = [g_hist EXCEPT
                    !.changes = @ + 1,
                    !.bursts = @ + (IF \E t \in 1..Len(g_timers) :
                                          g_timers[t].st = "pending"
                                    THEN 0 ELSE 1)]
    /\ UNCHANGED <<g_save_timer, g_timers, g_config, g_file>>
    /\ UNCHANGED outsideSave

\* line 62: `_save_timer.cancel()`, the global read again: AttributeError
\* when it is None by now, which ends the assignment of the field
DebounceCancel ==
    /\ g_pc = "cancel"
    /\ IF g_save_timer = NoTimer
       THEN /\ g_pc' = "idle"
            /\ g_hist' = [g_hist EXCEPT !.raised = @ + 1]
            /\ UNCHANGED g_timers
       ELSE /\ g_pc' = "arm"
            /\ g_timers' = Cancelled(g_timers, g_save_timer)
            /\ UNCHANGED g_hist
    /\ UNCHANGED <<g_save_timer, g_config, g_file>>
    /\ UNCHANGED outsideSave

\* lines 63-65: _save_timer = threading.Timer(interval, _save_config)
DebounceArm ==
    /\ g_pc = "arm"
    /\ g_timers' = Append(g_timers, [st |-> "created", pc |-> "none"])
    /\ g_save_timer' = Len(g_timers) + 1
    /\ g_pc' = "start"
    /\ UNCHANGED <<g_config, g_file, g_hist>>
    /\ UNCHANGED outsideSave

\* line 66: `_save_timer.start()`, the global read again; a timer cancelled
\* before it is started never runs its function
DebounceStart ==
    /\ g_pc = "start"
    /\ IF g_save_timer = NoTimer
       THEN /\ g_pc' = "idle"
            /\ g_hist' = [g_hist EXCEPT !.raised = @ + 1]
            /\ UNCHANGED g_timers
       ELSE /\ g_pc' = "assign"
            /\ g_timers' = [g_timers EXCEPT ![g_save_timer].st =
                                IF @ = "created" THEN "pending" ELSE @]
            /\ UNCHANGED g_hist
    /\ UNCHANGED <<g_save_timer, g_config, g_file>>
    /\ UNCHANGED outsideSave

\* TrackableBaseModel.__setattr__, its last line: the field gets the value
ChangeAssign ==
    /\ g_pc = "assign"
    /\ g_config' = g_config + 1
    /\ g_pc' = "idle"
    /\ UNCHANGED <<g_save_timer, g_timers, g_file, g_hist>>
    /\ UNCHANGED outsideSave

\* the interval of timer t has elapsed: its thread calls _save_config
SaveTimerFire(t) ==
    /\ g_timers[t].st = "pending"
    /\ g_timers' = [g_timers EXCEPT ![t] = [st |-> "running", pc |-> "check"]]
    /\ UNCHANGED <<g_save_timer, g_pc, g_config, g_file, g_hist>>
    /\ UNCHANGED outsideSave

\* _save_config, line 44: `if _save_timer:`
SaveCheck(t) ==
    /\ g_timers[t].st = "running"
    /\ g_timers[t].pc = "check"
    /\ g_timers' = [g_timers EXCEPT ![t].pc =
                        IF g_save_timer # NoTimer THEN "cancel" ELSE "write"]
    /\ UNCHANGED <<g_save_timer, g_pc, g_config, g_file, g_hist>>
    /\ UNCHANGED outsideSave

\* line 45: `_save_timer.cancel()`, the global read again: the timer it
\* refers to now, or AttributeError, which ends the thread of the timer
SaveCancel(t) ==
    /\ g_timers[t].st = "running"
    /\ g_timers[t].pc = "cancel"
    /\ IF g_save_timer = NoTimer
       THEN /\ g_timers' = [g_timers EXCEPT ![t] =
                                [st |-> "done", pc |-> "raised"]]
            /\ g_hist' = [g_hist EXCEPT !.raised = @ + 1]
       ELSE /\ g_timers' = [Cancelled(g_timers, g_save_timer)
                                EXCEPT ![t].pc = "clear"]
            /\ UNCHANGED g_hist
    /\ UNCHANGED <<g_save_timer, g_pc, g_config, g_file>>
    /\ UNCHANGED outsideSave

\* line 46: _save_timer = None
SaveClear(t) ==
    /\ g_timers[t].st = "running"
    /\ g_timers[t].pc = "clear"
    /\ g_save_timer' = NoTimer
    /\ g_timers' = [g_timers EXCEPT ![t].pc = "write"]
    /\ UNCHANGED <<g_pc, g_config, g_file, g_hist>>
    /\ UNCHANGED outsideSave

\* lines 48-53: the configuration in memory is written to the file
SaveWrite(t) ==
    /\ g_timers[t].st = "running"
    /\ g_timers[t].pc = "write"
    /\ g_file' = g_config
    /\ g_timers' = [g_timers EXCEPT ![t] = [st |-> "done", pc |-> "wrote"]]
    /\ g_hist' = [g_hist EXCEPT !.writes = @ + 1]
    /\ UNCHANGED <<g_save_timer, g_pc, g_config>>
    /\ UNCHANGED outsideSave

\* the module when loaded, line 76: no timer, the file as the memory
InitSave ==
    /\ g_save_timer = NoTimer
    /\ g_timers = <<>>
    /\ g_pc = "idle"
    /\ g_config = 0
    /\ g_file = 0
    /\ g_hist = [changes |-> 0, bursts |-> 0, writes |-> 0, raised |-> 0]

IdleSave == InitSave

NextSave ==
    \/ ChangeCall
    \/ DebounceCancel
    \/ DebounceArm
    \/ DebounceStart
    \/ ChangeAssign
    \/ \E t \in 1..Len(g_timers) : SaveTimerFire(t)
    \/ \E t \in 1..Len(g_timers) : SaveCheck(t)
    \/ \E t \in 1..Len(g_timers) : SaveCancel(t)
    \/ \E t \in 1..Len(g_timers) : SaveClear(t)
    \/ \E t \in 1..Len(g_timers) : SaveWrite(t)

(***************************************************************************)
(* The three publishers side by side                                       *)
(***************************************************************************)
\* nothing has been done with the publishers other than `hub`
OtherHubsIdle(hub) ==
    /\ hub # "manager" => m_callbacks = <<>> /\ m_hist.starts = 0
    /\ hub # "supervisor" => s_callbacks = <<>> /\ s_hist.assigns = 0
    /\ hub # "bastion" =>
        b_callbacks = <<>> /\ b_hist.calls = 0 /\ b_hist.sets = 0

\* a run that uses one of the three publishers: the token manager with one
\* start() and the timers that follow, the tunnel supervisor with
\* assignments to `connected`, or the bastion session hub; a callback may be
\* registered more than once
\* one host for the publishers: its clock reads 9000, its zone is UTC, and
\* the sessions it is given were created at 3600; the provisioner calls and
\* the assignments to `connected` of a run are MaxSets together
PublishHost ==
    /\ b_hist.calls + b_hist.sets <= MaxSets
    /\ b_session.some => b_session.creation_time = 3600
    /\ \A i \in 1..Len(b_hist.notes) :
        b_hist.notes[i].now = 9000 /\ b_hist.notes[i].expiration.utcoffset = 0

NextPublish ==
    \/ \E s \in Subscribers : OtherHubsIdle("manager") /\ AddCallback(s)
    \/ OtherHubsIdle("manager") /\ m_hist.starts = 0 /\ StartCall
    \/ StartRenew
    \/ StartSchedule
    \/ StartNotify
    \/ \E t \in 1..Len(m_timers) : TimerFire(t)
    \/ \E t \in 1..Len(m_timers) : RenewTokenRenew(t)
    \/ \E t \in 1..Len(m_timers) : RenewTokenFinish(t)
    \/ Tick
    \/ \E sub \in SshSubscribers :
            OtherHubsIdle("supervisor") /\ RegisterConnectionCallback(sub)
    \/ \E value \in BOOLEAN : OtherHubsIdle("supervisor") /\ AssignCall(value)
    \/ SetterCheck(Caller)
    \/ SetterAssign(Caller)
    \/ SetterNotify(Caller)
    \/ AssignReturn
    \/ OtherHubsIdle("bastion") /\ NextBastion /\ PublishHost'

(***************************************************************************)
(* Specifications                                                          *)
(***************************************************************************)
NextTok == TokCall \/ ExpiredCall

\* the token manager when nothing is done with it
IdleMgr ==
    /\ InitMgr
    /\ m_load = "unreadable"

InitSpecTok == InitTok /\ IdleMgr /\ IdleSSH /\ IdleBastion /\ IdleConfig
    /\ IdleSave

InitSpecMgr == IdleTok /\ InitMgr /\ IdleSSH /\ IdleBastion /\ IdleConfig
    /\ IdleSave

InitSpecSSH == IdleTok /\ IdleMgr /\ InitSSH /\ IdleBastion /\ IdleConfig
    /\ IdleSave

InitSpecBastion == IdleTok /\ IdleMgr /\ IdleSSH /\ InitBastion /\ IdleConfig
    /\ IdleSave

InitSpecOverlap ==
    IdleTok /\ IdleMgr /\ IdleSSH /\ IdleBastion /\ IdleConfig
    /\ IdleSave

InitSpecSave ==
    IdleTok /\ IdleMgr /\ IdleSSH /\ IdleBastion /\ IdleConfig /\ InitSave

InitSpecConfig == IdleTok /\ IdleMgr /\ IdleSSH /\ IdleBastion /\ InitConfig
    /\ IdleSave

\* the token decoding applied to each input token
SpecTok == InitSpecTok /\ [][NextTok]_vars

\* the token manager with its timers
SpecMgr == InitSpecMgr /\ [][NextMgr]_vars

\* the tunnel supervisor with its worker threads
SpecSSH == InitSpecSSH /\ [][NextSSH]_vars

\* the tunnel supervisor over one connect() cycle
SpecCycle == InitSpecSSH /\ [][NextCycle]_vars

\* the tunnel supervisor over connect() cycles that follow one another
SpecReconnect == InitSpecSSH /\ [][NextReconnect]_vars

\* the publishers, one of them used in a run
SpecCycleFair == InitSpecSSH /\ [][NextCycle]_vars /\ FairThreads
SpecRaise == InitSpecOverlap /\ [][NextRaise]_vars
SpecOverlap == InitSpecOverlap /\ [][NextOverlap]_vars
SpecPublish == InitSpecMgr /\ [][NextPublish]_vars

\* reads of the configuration
SpecSave == InitSpecSave /\ [][NextSave]_vars
SpecConfig == InitSpecConfig /\ [][NextConfig]_vars

\* the session provisioner
SpecBastion == InitSpecBastion /\ [][NextBastion]_vars

\* the connected setter under one thread
SpecSetter == InitSpecSSH /\ [][NextSetter]_vars

(***************************************************************************)
(* Claims about the token manager and the renewal scheduler                *)
(***************************************************************************)
PendingTimers == {t \in 1..Len(m_timers) : m_timers[t].st = "pending"}

\* the delay the scheduler is to arm for a token with `ttl` seconds left
MarginDelay(ttl) == Max(ttl - 120, 0)

\* every registered callback was called exactly once, in order, with the
\* given success flag and the expiration on record
NotifiedOnce(op, success) ==
    /\ Len(op.notes) = Len(op.cbs)
    /\ \A i \in 1..Len(op.cbs) :
        op.notes[i] = [cb |-> op.cbs[i], success |-> success, expiration |-> op.want]

\* C1: at most one renewal timer is outstanding in every reachable state, so
\* two start() calls without a stop() between them leave one pending timer.
C1_AtMostOneTimer == Cardinality(PendingTimers) <= 1

\* C2: once stop() has returned, and until start() is called again, no
\* renewal attempt (no run of the external command) is started.
C2_NoRenewalAfterStop ==
    [][(m_hist.stopped /\ m_hist.stopped') => m_hist.attempts' = m_hist.attempts]_vars

\* C7: when start() has returned, auto-renew is on; if the token was expired
\* (or missing, or undecodable) start() made exactly one renewal, with
\* force_new = True, and armed no timer; otherwise it made no renewal and
\* armed one timer with delay max(timeToExpiry - 120, 0); and it called
\* every callback exactly once with the resulting success flag and the
\* expiration.
C7_Start ==
    (m_pc = "idle" /\ m_op.name = "start") =>
        /\ m_auto_renew
        /\ m_op.expired =>
            /\ Len(m_op.renews) = 1 /\ m_op.renews[1].force
            /\ m_op.armed = <<>>
            /\ NotifiedOnce(m_op, m_op.renews[1].ok)
        /\ ~m_op.expired =>
            /\ m_op.renews = <<>>
            /\ Len(m_op.armed) = 1
            /\ m_timers[m_op.armed[1]].delay = MarginDelay(m_timers[m_op.armed[1]].ttl)
            /\ NotifiedOnce(m_op, TRUE)

\* C7 witness: start() has returned on the not-expired path with the delay
\* clamped at 0, after a subscriber registered
C7_Witness ==
    /\ m_pc = "idle" /\ m_op.name = "start" /\ ~m_op.expired
    /\ Len(m_op.notes) >= 1
    /\ Len(m_op.armed) = 1
    /\ m_timers[m_op.armed[1]].ttl = 60
    /\ m_timers[m_op.armed[1]].delay = 0

\* C8: a timer that fires while the scheduler is armed makes exactly one
\* renewal attempt, with force_new = False; one that fires while the
\* scheduler is stopped makes none; a timer armed for a token that expires
\* in 3600 seconds has delay 3480.
C8_TimerFire ==
    \A t \in 1..Len(m_timers) :
        /\ (m_timers[t].st \in {"finish", "done"} /\ m_timers[t].chk = "armed") =>
            /\ Len(m_timers[t].renews) = 1
            /\ ~m_timers[t].renews[1].force
        /\ (m_timers[t].chk \in {"stopped", "off"}) =>
            /\ m_timers[t].st = "done"
            /\ m_timers[t].renews = <<>>
        /\ m_timers[t].ttl = 3600 => m_timers[t].delay = 3480

\* C8 witness: a timer armed by start() with delay 3480 has fired while the
\* scheduler was armed and its renewal has been made
C8_Witness ==
    \E t \in 1..Len(m_timers) :
        /\ m_timers[t].st = "done" /\ m_timers[t].chk = "armed"
        /\ m_timers[t].ttl = 3600 /\ m_timers[t].delay = 3480
        /\ Len(m_timers[t].renews) = 1

\* C9: after a timer-fired renewal that succeeded exactly one timer is armed,
\* with delay max(timeToExpiry - 120, 0) for the fresh token; after one that
\* failed no timer is armed and no renewal attempt is made until start() is
\* called again; either way every callback is called once with the flag of
\* that renewal.
C9_AfterTimerRenewal ==
    /\ [](\A t \in 1..Len(m_timers) :
            (m_timers[t].st = "done" /\ m_timers[t].renews # <<>>) =>
                /\ NotifiedOnce(m_timers[t], m_timers[t].renews[1].ok)
                /\ m_timers[t].renews[1].ok =>
                    /\ Len(m_timers[t].armed) = 1
                    /\ m_timers[m_timers[t].armed[1]].delay
                         = MarginDelay(m_timers[m_timers[t].armed[1]].ttl)
                /\ ~m_timers[t].renews[1].ok => m_timers[t].armed = <<>>)
    /\ [][(m_hist.failed /\ m_hist.failed') => m_hist.attempts' = m_hist.attempts]_vars

\* C10: for every token whose payload is a JSON object with a numeric exp the
\* call returns max(exp - now, 0) (a positive value when exp lies beyond the
\* year 9999, far after now); for every malformed token and for no token it
\* returns 0; it never raises.
C10_TimeToExpiry ==
    tk_out.done =>
        /\ ~tk_out.raised
        /\ tk_class = "numeric" => tk_out.val = Max(tk_exp - tk_now, 0)
        /\ tk_class = "numeric_big" => tk_out.val > 0
        /\ tk_class \in {"malformed", "none"} => tk_out.val = 0

(***************************************************************************)
(* Claims about the tunnel supervisor and its subscribers                  *)
(***************************************************************************)
\* the callbacks registered so far
Registered == {s_callbacks[i] : i \in 1..Len(s_callbacks)}

\* the worker of the only connect() of a run that disconnect() left alone, all
\* of whose launches so far ended with a plain error on stderr
PlainCycle(k) ==
    /\ s_hist.connects = 1
    /\ s_hist.disconnects = 0
    /\ k.rc0 = 0
    /\ k.plain

\* C3: with max_retries = N, retry_count = 0 at the start and every launch
\* ending with a plain error, one connect() makes exactly N + 1 launches and
\* the worker then ends; it sleeps check_interval once between two launches
\* (N sleeps) and not after the last launch.
C3_RetryBudget ==
    \A w \in 1..Len(s_workers) :
        PlainCycle(s_workers[w]) =>
            /\ s_workers[w].nap = CheckInterval
            /\ s_workers[w].launches <= s_max_retries + 1
            /\ s_workers[w].pc \in {"loop", "popen"} =>
                    s_workers[w].sleeps = s_workers[w].launches
            /\ s_workers[w].pc \in {"communicate", "waiting", "finally", "sleep"} =>
                    s_workers[w].sleeps = s_workers[w].launches - 1
            /\ s_workers[w].pc = "done" =>
                    /\ s_workers[w].launches = s_max_retries + 1
                    /\ s_workers[w].sleeps = s_max_retries

\* C3 witness: with the largest retry setting the worker has ended after
\* launches that all failed with a plain error
C3_Witness ==
    \E w \in 1..Len(s_workers) :
        /\ PlainCycle(s_workers[w])
        /\ s_workers[w].pc = "done"
        /\ s_max_retries = MaxRetries
        /\ s_workers[w].launches = MaxRetries + 1

\* C4: once a launch has ended with "Permission denied" on stderr the worker
\* launches nothing more and does not sleep, whatever the retry budget left;
\* it ends with retry_count reset to 0 and connected false. A denial at the
\* first attempt therefore means one launch.
C4_PermissionDeniedTerminal ==
    \A w \in 1..Len(s_workers) :
        s_workers[w].perm =>
            /\ s_workers[w].pc \in {"finally", "done"}
            /\ s_workers[w].launches = s_workers[w].permL
            /\ s_workers[w].sleeps = s_workers[w].permS
            /\ (s_workers[w].pc = "done" /\ s_hist.connects = 1) =>
                    /\ s_retry_count = 0
                    /\ ~s_connected

\* C4 witness: a worker has ended on a denial at its second launch, with
\* retries left
C4_Witness ==
    \E w \in 1..Len(s_workers) :
        /\ s_workers[w].perm
        /\ s_workers[w].pc = "done"
        /\ s_workers[w].permL = 2
        /\ s_max_retries = MaxRetries

\* C5: with one thread, assigning the current value to `connected` changes
\* nothing and calls nobody; assigning another value stores it and calls
\* every callback once with it; so each callback has been called as many
\* times as the value has changed.
C5_NotifyOnChangeOnly ==
    (s_cpc = "idle" /\ s_hist.op.on) =>
        /\ \A sub \in Registered : s_notes[sub].n = s_hist.changes
        /\ s_hist.op.value = s_hist.op.prev =>
                /\ s_connected = s_hist.op.prev
                /\ s_notes = s_hist.op.notes
                /\ s_hist.changes = s_hist.op.changes
        /\ s_hist.op.value # s_hist.op.prev =>
                /\ s_connected = s_hist.op.value
                /\ s_hist.changes = s_hist.op.changes + 1
                /\ \A sub \in Registered :
                        s_notes[sub] = [n |-> s_hist.op.notes[sub].n + 1,
                                        last |-> <<s_hist.op.value>>]
                /\ \A sub \in SshSubscribers \ Registered :
                        s_notes[sub] = s_hist.op.notes[sub]

\* C5 witness: TRUE has been assigned twice in a row and every callback was
\* called once
C5_Witness ==
    /\ s_cpc = "idle"
    /\ s_hist.op.on
    /\ s_hist.assigns = 2
    /\ s_hist.op.value /\ s_hist.op.prev
    /\ Len(s_callbacks) = MaxSubscribers
    /\ \A sub \in Registered : s_notes[sub].n = 1

\* C6: whatever the interleaving of the worker and the thread calling
\* disconnect() or toggle(), a callback is never called twice in a row with
\* the same value, and the value it is called with is the value assigned by
\* the setter call that notifies.
C6_OneNotificationPerChange ==
    s_hist.deliv.on =>
        /\ <<s_hist.deliv.val>> # s_hist.deliv.prev
        /\ s_hist.deliv.val = s_hist.deliv.assigned

(***************************************************************************)
(* Claims about the token state                                            *)
(***************************************************************************)
\* the token has no expiration the decoding can read: none is loaded, or a
\* step of the decoding raises
NoParseableExpiration ==
    \/ ~tk_token.some
    \/ tk_token.text = <<>>
    \/ DecodeExpirationDelay(tk_token.text, tk_now).exc

\* C11: `expired` is true exactly when the time to expiry is 0; it is true
\* when no token is loaded and when the token has no parseable expiration.
C11_ExpiredIffZero ==
    (tk_out.done /\ tk_expired.done) =>
        /\ tk_expired.val <=> (tk_out.val = 0)
        /\ NoParseableExpiration => tk_expired.val
        /\ tk_class = "none" => tk_expired.val

\* C11 witness: a token whose payload is not JSON has been found expired, the
\* time to expiry being 0
C11_Witness ==
    /\ tk_out.done /\ tk_expired.done
    /\ tk_class = "malformed"
    /\ tk_token.some
    /\ NoParseableExpiration
    /\ tk_expired.val
    /\ tk_out.val = 0

(***************************************************************************)
(* Claims about the provisioning of a bastion session                      *)
(***************************************************************************)
\* a call of the provisioner has ended, and so has _renew_session when the
\* call came from it
ProvisionEnded ==
    /\ b_pc = "idle"
    /\ b_call.on
    /\ b_call.outcome \in {"true", "false", "raised"}

\* turns of the poll loop that fit in the poll window
PollsInWindow == MaxSleepTime \div SleepTime

\* C12: a session that stays CREATING is fetched again exactly 12 times, and
\* then provisioning returns failure; it never reports success and never
\* records the session as ACTIVE.
C12_TwelvePollsThenFailure ==
    (ProvisionEnded /\ b_call.status = Accepted /\ b_call.stuck) =>
        /\ b_call.fetches = PollsInWindow
        /\ b_call.sleeps = PollsInWindow
        /\ b_call.outcome = "false"
        /\ ~b_call.active

\* C13: provisioning returns success exactly when the last observed state is
\* ACTIVE, and returns failure, raising nothing, for every other state; the
\* poll loop stops at the first fetched state that is not CREATING.
C13_SuccessIffActive ==
    /\ (ProvisionEnded /\ b_call.status = Accepted
            /\ b_call.exc # "ServiceError") =>
          b_call.outcome = IF b_call.last = "ACTIVE" THEN "true" ELSE "false"
    /\ (b_pc = "poll" /\ b_session.state # "CREATING") => ~ENABLED PollFetch

\* C14: a create-session response whose status is not 202 makes provisioning
\* return failure without raising; nothing is polled, the stored session is
\* cleared and auto-renew is false afterwards.
C14_NotAccepted ==
    (ProvisionEnded /\ b_call.creates = 1 /\ b_call.exc # "ServiceError"
        /\ b_call.status # 0 /\ b_call.status # Accepted) =>
        /\ b_call.outcome = "false"
        /\ b_call.fetches = 0
        /\ b_session = NoSession
        /\ ~b_auto_renew

\* C15: a failed read of the public key ends provisioning before any
\* create-session request, as a failure returned to the caller and reported
\* to the subscribers with auto-renew false; no exception leaves the
\* provisioner or the timer callback.
C15_KeyReadFailure ==
    (ProvisionEnded /\ b_call.keyread \notin {"none", "ok"}) =>
        /\ b_call.creates = 0
        /\ b_call.outcome = "false"
        /\ ~b_auto_renew
        /\ b_call.via = "renew" => Len(b_call.notes) = Len(b_callbacks)

(***************************************************************************)
(* Claims about the renewal command                                        *)
(***************************************************************************)
\* every call of _renew_security_token made so far
RenewCalls ==
    {m_op.renews[i] : i \in 1..Len(m_op.renews)}
    \cup UNION {{m_timers[t].renews[i] : i \in 1..Len(m_timers[t].renews)} :
                    t \in 1..Len(m_timers)}

\* C16: the renewal returns true exactly when the command exits with code
\* 0, the token then being loaded again from its file; with another exit code
\* it returns false and the token in memory is what it was. force_new picks
\* `session authenticate`, otherwise `session refresh` is run.
C16_RenewReturnsExitCode ==
    \A r \in RenewCalls :
        /\ r.ok <=> r.code = 0
        /\ r.code = 0 => r.after = r.file
        /\ r.code # 0 => r.after = r.before
        /\ r.cmd[3] = IF r.force THEN "authenticate" ELSE "refresh"

\* C16 witness: a forced renewal has failed with the token left as it was, and
\* a renewal by the timer has run `session refresh`, got exit code 0 and
\* loaded another token
C16_Witness ==
    /\ \E r \in RenewCalls :
        r.force /\ r.code # 0 /\ ~r.ok /\ r.after = r.before
    /\ \E r \in RenewCalls :
        /\ ~r.force /\ r.code = 0 /\ r.ok
        /\ r.cmd[3] = "refresh"
        /\ r.after # r.before

(***************************************************************************)
(* Claims about the construction of the token manager                      *)
(***************************************************************************)
\* the configuration errors of the profile load
ConfigurationErrors == {"ConfigFileNotFound", "ProfileNotFound", "no_token_file"}

\* C17: a profile load that finds no config file, no such profile or no
\* token-file setting fails the initialization: no manager instance exists
\* that later operations can use.
C17_LoadFailureFailsInit ==
    m_load \in ConfigurationErrors =>
        /\ m_pc = "none"
        /\ m_hist.starts = 0 /\ m_hist.stops = 0

(***************************************************************************)
(* Claims about stop()                                                     *)
(***************************************************************************)
\* C18: when stop() has returned, and until the next start(), auto-renew is
\* off and no renewal timer is outstanding, whatever a timer callback running
\* at that moment does; this holds for a second stop() and for a stop() before
\* any start() as well.
C18_StoppedNoTimer ==
    (m_hist.stopped /\ m_op.name = "stop" /\ m_pc = "idle") =>
        /\ ~m_auto_renew
        /\ PendingTimers = {}

(***************************************************************************)
(* Claims about disconnect() and about a new connect cycle                 *)
(***************************************************************************)
\* C19: once disconnect() has returned, and until the next connect(),
\* should_reconnect is false, connected is false, the supervisor's subprocess
\* is not running and the worker launches no subprocess, wherever in its loop
\* the worker was when disconnect() was called.
C19_AfterDisconnect ==
    s_hist.discd =>
        /\ ~s_should_reconnect
        /\ ~s_connected
        /\ s_process # 0 => s_procs[s_process].st # "running"
        /\ Len(s_procs) = s_hist.procs0

\* C20: after the worker has stopped because the retry budget was used up
\* or because of a permission denial, a new connect() starts a cycle that
\* launches the subprocess at least once and has the full retry budget.
C20_NewCycleAfterFailure ==
    (/\ Len(s_workers) = 2
     /\ s_workers[2].pc = "done"
     /\ s_hist.disconnects = 0) =>
        /\ s_workers[2].launches >= 1
        /\ s_workers[2].rc0 = 0

(***************************************************************************)
(* Claims about the callbacks of the three publishers                      *)
(***************************************************************************)
\* the callbacks a sequence of notifications went to, in the order of the calls
CalledOf(notes) == [i \in 1..Len(notes) |-> notes[i].cb]

\* the subscribers a sequence of bastion notifications went to
SubsOf(notes) == [i \in 1..Len(notes) |-> notes[i].sub]

\* p is q or the beginning of q
IsPrefix(p, q) == Len(p) <= Len(q) /\ p = SubSeq(q, 1, Len(p))

\* the publishes that have ended called the registered callbacks, one call
\* for each registration, in registration order
PublishedInOrder ==
    /\ (m_pc = "idle" /\ m_op.name = "start") =>
            CalledOf(m_op.notes) = m_callbacks
    /\ \A t \in 1..Len(m_timers) :
            (m_timers[t].st = "done" /\ m_timers[t].chk = "armed") =>
                CalledOf(m_timers[t].notes) = m_callbacks
    /\ (s_cpc = "idle" /\ s_hist.op.on) =>
            s_hist.op.order = IF s_hist.op.value # s_hist.op.prev
                              THEN s_callbacks ELSE <<>>
    /\ (b_pc = "idle" /\ b_call.on /\ b_call.via = "renew"
            /\ b_call.outcome \in {"skipped", "true", "false"}) =>
            SubsOf(b_call.notes) = b_callbacks
    /\ b_hist.pubs > 0 => SubsOf(b_hist.notes) = b_callbacks

\* C21: every publish calls every registered callback once for each of its
\* registrations, in registration order, on the publishing thread; a
\* registration only appends, so that no callback is ever removed. This
\* holds for the token manager, the tunnel supervisor and the bastion hub.
C21_PublishToAll ==
    [][/\ PublishedInOrder'
       /\ IsPrefix(m_callbacks, m_callbacks')
       /\ IsPrefix(s_callbacks, s_callbacks')
       /\ IsPrefix(b_callbacks, b_callbacks')]_vars

\* C21 witness: a callback registered twice with the token manager has been
\* called twice by the publish of a renewal timer
C21_Witness ==
    /\ m_callbacks = <<1, 1>>
    /\ \E t \in 1..Len(m_timers) :
        /\ m_timers[t].st = "done"
        /\ CalledOf(m_timers[t].notes) = <<1, 1>>

(***************************************************************************)
(* Claims about toggle()                                                   *)
(***************************************************************************)
\* what a step that is a call of disconnect(), up to the test of the process,
\* does to the supervisor
DisconnectEffect ==
    /\ ~s_should_reconnect'
    /\ s_hist'.disconnects = s_hist.disconnects + 1
    /\ s_hist'.connects = s_hist.connects
    /\ s_workers' = s_workers

\* what a step that is a call of connect() does to the supervisor
ConnectEffect ==
    /\ s_should_reconnect'
    /\ s_hist'.connects = s_hist.connects + 1
    /\ s_hist'.disconnects = s_hist.disconnects
    /\ Len(s_workers') = Len(s_workers) + 1
    /\ s_cpc' = s_cpc

\* C22: toggle() calls disconnect() when connected is true at the call and
\* connect() when it is false; it does one of the two and nothing else.
C22_Toggle ==
    [][ToggleCall =>
        /\ IF s_connected THEN DisconnectEffect ELSE ConnectEffect
        /\ UNCHANGED <<s_connected, s_callbacks, s_process, s_procs,
                       s_retry_count, s_max_retries, s_set, s_notes>>]_vars

\* C22 witness: connected was true at a call that has begun to disconnect
C22_Witness ==
    /\ s_connected
    /\ s_cpc = "disc_term"
    /\ ~s_should_reconnect
    /\ s_hist.connects = 1 /\ s_hist.disconnects = 1

(***************************************************************************)
(* Claims about the renewal of the bastion session                         *)
(***************************************************************************)
\* the session timers that wait
PendingSessionTimers == {t \in 1..Len(b_timers) : b_timers[t].st = "pending"}

\* C23: a fire of the session timer with auto-renew set invokes provisioning
\* once and arms a new timer, with delay ttl - 120, exactly when it
\* succeeded; with the flag not set nothing is provisioned. Every fire
\* notifies the subscribers once, and at most one session timer waits.
C23_SessionRenewal ==
    /\ Cardinality(PendingSessionTimers) <= 1
    /\ \A t \in 1..Len(b_timers) : b_timers[t].delay = b_ttl - 120
    /\ (b_pc = "idle" /\ b_call.on /\ b_call.via = "renew") =>
        /\ SubsOf(b_call.notes) = b_callbacks
        /\ b_call.auto0 =>
            /\ b_call.outcome # "skipped"
            /\ b_call.armed = 1 <=> b_call.outcome = "true"
            /\ Cardinality(PendingSessionTimers) = b_call.armed
        /\ ~b_call.auto0 =>
            /\ b_call.outcome = "skipped"
            /\ b_call.creates = 0
            /\ PendingSessionTimers = {}

(***************************************************************************)
(* Claims about the retry budget after a clean exit and a failed spawn     *)
(***************************************************************************)
\* the worker of the only connect() of a run that disconnect() left alone
\* and no launch of which was denied
OwnCycle(k) ==
    /\ s_hist.connects = 1
    /\ s_hist.disconnects = 0
    /\ k.rc0 = 0
    /\ ~k.perm

\* C24: a launch that exits with no error output resets retry_count: after
\* it the worker makes up to max_retries launches that fail before it gives
\* up, and as long as every launch exits without error output the worker
\* does not end.
C24_CleanExitResets ==
    \A w \in 1..Len(s_workers) :
        (OwnCycle(s_workers[w]) /\ s_workers[w].clean >= 1) =>
            /\ s_workers[w].since <= s_max_retries
            /\ s_workers[w].pc = "done" => s_workers[w].since = s_max_retries
            /\ s_workers[w].since = 0 => s_workers[w].pc # "done"
            /\ s_workers[w].pc = "finally" =>
                    s_retry_count = s_workers[w].since

\* C24 witness: after a clean exit the worker has given up, max_retries
\* launches having failed since
C24_Witness ==
    \E w \in 1..Len(s_workers) :
        /\ OwnCycle(s_workers[w])
        /\ s_workers[w].clean = 1
        /\ s_workers[w].pc = "done"
        /\ s_workers[w].since = s_max_retries
        /\ s_max_retries = MaxRetries

\* C25: an exception raised by the launch itself stays in the worker and
\* counts as a transient failure: connected stays false, retry_count goes up
\* by one and the launch is tried again after check_interval, until the
\* budget is used up.
C25_SpawnFailure ==
    \A w \in 1..Len(s_workers) :
        (OwnCycle(s_workers[w]) /\ s_workers[w].launches = 0) =>
            /\ ~s_connected
            /\ s_workers[w].nap = CheckInterval
            /\ s_workers[w].pc \in {"loop", "popen"} =>
                    /\ s_retry_count = s_workers[w].spawns
                    /\ s_workers[w].sleeps = s_workers[w].spawns
            /\ s_workers[w].pc = "finally" =>
                    /\ s_retry_count = s_workers[w].spawns - 1
                    /\ s_workers[w].sleeps = s_workers[w].spawns - 1
            /\ s_workers[w].pc = "sleep" =>
                    /\ s_retry_count = s_workers[w].spawns
                    /\ s_retry_count <= s_max_retries
                    /\ s_workers[w].sleeps = s_workers[w].spawns - 1
            /\ s_workers[w].pc = "done" =>
                    /\ s_workers[w].spawns = s_max_retries + 1
                    /\ s_workers[w].sleeps = s_max_retries

\* C25 witness: every launch of the cycle failed to spawn and the worker has
\* given up after max_retries + 1 attempts
C25_Witness ==
    \E w \in 1..Len(s_workers) :
        /\ OwnCycle(s_workers[w])
        /\ s_workers[w].launches = 0
        /\ s_workers[w].pc = "done"
        /\ s_workers[w].spawns = MaxRetries + 1
        /\ s_retry_count = MaxRetries + 1

(***************************************************************************)
(* Claims about the configuration                                          *)
(***************************************************************************)
\* C26: the configuration handed out is the loaded one with the overrides on
\* top: a key of the overrides has the override's value, every other key the
\* loaded value; it is a copy, so that changing it changes neither the
\* loaded configuration nor the overrides of the manager.
C26_ConfigCopy ==
    [][/\ c_heap'[Loaded] = c_orig[1]
       /\ c_heap'[Overrides] = c_orig[2]
       /\ c_ret' # c_ret =>
            /\ c_ret' \notin {Loaded, Overrides}
            /\ \A k \in Keys :
                c_heap'[c_ret'][k] = IF c_orig[2][k] # Absent
                                     THEN c_orig[2][k] ELSE c_orig[1][k]]_vars

\* C26 witness: the overrides replace a loaded value and add a key; the
\* caller has changed both keys of the dict it got, and the dicts of the
\* manager are what they were
C26_Witness ==
    /\ c_orig[1] = [k \in Keys |-> IF k = "region" THEN "a" ELSE Absent]
    /\ c_orig[2] = [k \in Keys |-> "b"]
    /\ c_ret = 3
    /\ c_heap[c_ret] = [k \in Keys |-> IF k = "region" THEN "a" ELSE Absent]
    /\ c_heap[Loaded] = c_orig[1]
    /\ c_heap[Overrides] = c_orig[2]

\* C27: every notification of the bastion provisioner carries (state,
\* connected, expiration, session) of the provisioner at the publication:
\* with no session the state is INACTIVE, the session is null and the
\* expiration is the current time; with a session the state is its
\* lifecycle state and the expiration is its creation_time plus the TTL.
C27_NotificationTuple ==
    [][b_hist'.pubs # b_hist.pubs =>
        \A i \in 1..Len(b_hist'.notes) :
            /\ b_hist'.notes[i].connected = b_connected'
            /\ b_hist'.notes[i].session = b_session'
            /\ IF ~b_session'.some
               THEN /\ b_hist'.notes[i].state = "INACTIVE"
                    /\ b_hist'.notes[i].session = NoSession
                    /\ Instant(b_hist'.notes[i].expiration)
                         = b_hist'.notes[i].now
               ELSE /\ b_hist'.notes[i].state = b_session'.state
                    /\ Instant(b_hist'.notes[i].expiration)
                         = b_session'.creation_time + b_ttl']_vars

\* the same, the expiration compared as the wall clock it shows
NotificationWallClock ==
    [][b_hist'.pubs # b_hist.pubs =>
        \A i \in 1..Len(b_hist'.notes) :
            /\ b_hist'.notes[i].connected = b_connected'
            /\ b_hist'.notes[i].session = b_session'
            /\ IF ~b_session'.some
               THEN /\ b_hist'.notes[i].state = "INACTIVE"
                    /\ b_hist'.notes[i].session = NoSession
                    /\ Instant(b_hist'.notes[i].expiration)
                         = b_hist'.notes[i].now
               ELSE /\ b_hist'.notes[i].state = b_session'.state
                    /\ b_hist'.notes[i].expiration.wall
                         = b_session'.creation_time + b_ttl']_vars

\* the worker threads that have been started and have not ended
AliveWorkers == {w \in 1..Len(s_workers) : s_workers[w].pc # "done"}

\* the forwarding subprocesses that have been launched and have not exited
RunningProcs == {p \in 1..Len(s_procs) : s_procs[p].st = "running"}

\* C28: whatever connect(), disconnect() and toggle() calls are made, at
\* most one worker thread and at most one forwarding subprocess are alive,
\* and the process handle of the supervisor is the subprocess that is alive.
C28_SingleWorker ==
    /\ Cardinality(AliveWorkers) <= 1
    /\ Cardinality(RunningProcs) <= 1
    /\ \A p \in RunningProcs : s_process = p

\* C29: whenever connected is true the forwarding subprocess of the
\* supervisor is running: it has been launched and has not exited.
C29_ConnectedMeansRunning ==
    s_connected =>
        s_process # 0 /\ s_procs[s_process].st = "running"

\* C30: from the call of disconnect() (should_reconnect false) until the
\* next connect(), no subscriber is called with connected = true; the
\* subprocess terminated by disconnect() does not make the worker publish
\* "established".
C30_SilentAfterDisconnect ==
    [][(~s_should_reconnect /\ s_notes' # s_notes) =>
        \A sub \in SshSubscribers :
            s_notes'[sub].n # s_notes[sub].n =>
                s_notes'[sub].last = <<FALSE>>]_vars

\* C31: in every reachable state of a tunnel supervisor, whatever the
\* interleaving of connect(), disconnect(), toggle() and subprocess exits,
\* 0 <= retry_count <= max_retries + 1.
C31_RetryCountRange ==
    0 <= s_retry_count /\ s_retry_count <= s_max_retries + 1

\* C32: when start() has completed with success and stop() has not been
\* called, a renewal timer is pending, on both paths of start(): also when
\* start() found the token expired and the forced renewal succeeded.
C32_ArmedAfterStart ==
    [][(/\ m_pc \in {"start_sched", "start_notify"}
        /\ m_pc' = "idle"
        /\ m_success'
        /\ ~m_hist'.stopped) => PendingTimers' # {}]_vars

\* C33: for every configured session TTL, also below 120 seconds, the delay
\* the session-renewal timer is armed with is max(ttl - 120, 0): it is never
\* negative.
C33_SessionDelayClamped ==
    \A t \in 1..Len(b_timers) :
        /\ b_timers[t].delay = Max(b_ttl - 120, 0)
        /\ b_timers[t].delay >= 0

\* C34: if disconnect() is called and connect() is not called afterwards
\* (should_reconnect stays false), then, a terminated subprocess exiting
\* and the threads being scheduled fairly, every worker thread eventually
\* leaves its loop and no subprocess stays alive forever.
C34_WorkersEnd ==
    <>[](~s_should_reconnect) => <>[](AliveWorkers = {} /\ RunningProcs = {})

\* the tunnel is healthy after the first toggle(): the one subprocess it
\* launched is running
HealthyTunnel ==
    /\ s_hist.connects = 1
    /\ Len(s_procs) = 1
    /\ s_procs[1].st = "running"

\* C35: from an idle supervisor, a first toggle() that launches a subprocess
\* which keeps running followed by a second toggle() brings the supervisor
\* back to idle: when the second toggle() returns no subprocess is alive, no
\* worker is still in its loop, should_reconnect is false and connected is
\* false.
C35_ToggleTwice ==
    [][(HealthyTunnel /\ ToggleAgain) =>
        /\ RunningProcs' = {}
        /\ AliveWorkers' = {}
        /\ ~s_should_reconnect'
        /\ ~s_connected']_vars

\* C36: whenever the renewal returns true a token is loaded in memory
\* afterwards (the token in memory is not null), also when reading the
\* token file again after the successful command fails.
C36_TokenAfterSuccess ==
    \A r \in RenewCalls : r.ok => r.after.some

\* C37: a subscriber callback that raises during a connected-state
\* notification does not break the tunnel worker: the subscribers after it
\* are still notified (none is skipped), and no worker is ended by the
\* exception, so that the exit handling of the launch is applied.
C37_RaisingCallback ==
    /\ s_hist.skipped = 0
    /\ \A w \in 1..Len(s_workers) : ~s_workers[w].died

\* the save timers that wait for their interval
PendingSaves == {t \in 1..Len(g_timers) : g_timers[t].st = "pending"}

\* no change is being made, no timer waits and no save is running
SaveQuiet ==
    /\ g_pc = "idle"
    /\ \A t \in 1..Len(g_timers) : g_timers[t].st \in {"cancelled", "done"}

\* at most one save timer is pending
OnePendingSave == Cardinality(PendingSaves) <= 1

\* every change goes through: it arms a timer, and when it is made that
\* timer is the one the handle refers to and the only one that can still run
ChangeArms ==
    /\ g_hist'.raised = 0
    /\ ChangeAssign =>
            \A t \in 1..Len(g_timers) :
                g_timers[t].st \in {"created", "pending"} => t = g_save_timer

\* once all is quiet there has been one write for each burst of changes,
\* the file holds the last change and the handle is cleared
OneWritePerBurst ==
    SaveQuiet =>
        /\ g_hist.writes = g_hist.bursts
        /\ g_file = g_config
        /\ g_save_timer = NoTimer

\* C38: the debounced save keeps at most one save timer pending at any
\* time; every change cancels the pending timer before it arms a new one,
\* so that a burst of changes, each made before the interval of the one
\* before has elapsed, ends in exactly one write of the file, made after
\* the last change, and the write leaves the timer handle cleared.
C38_DebouncedSave ==
    [][OnePendingSave' /\ ChangeArms /\ OneWritePerBurst']_vars
====
